---- MODULE Spec2Model ----
(***************************************************************************)
(* Model of the FinAI chatbot backend: the Chat Session Service            *)
(* (app/services/chat_service.py), the cache store it sits on              *)
(* (app/repositories/cache_repository.py) and the Agent Runner             *)
(* (app/agents/investment_agent.py).                                       *)
(*                                                                         *)
(* Text is a sequence of tokens (strings); lower/strip/substring tests are *)
(* computed on the tokens.  Optional values are sequences of length <= 1.  *)
(* Confidence scores are integers in percent (0.5 is 50).  The LLM, the    *)
(* data providers and the clock are the environment: their outcomes are    *)
(* drawn from the explicit sets below.                                     *)
(***************************************************************************)
EXTENDS Integers, Sequences, FiniteSets, TLC

\* ------------------------------------------------------------------ bounds
MaxRequests == 2
MaxAdminCalls == 1
MaxTicks == 2
TickStep == 1800
MaxQueryWords == 3
MaxSchemeCodes == 6
MaxDecade == 4
MaxNames == 3
MaxCategories == 3
MaxSymbols == 4

\* ------------------------------------------------------- program constants
RESPONSE_CACHE_TTL == 3600
SESSION_TTL == 86400 * 7
MAX_SESSION_MESSAGES == 50
LOW_CONFIDENCE_THRESHOLD == 50
DEFAULT_CONFIDENCE == 80
SIMPLE_QA_CONFIDENCE == 90
FAILURE_CONFIDENCE == 60
STREAM_ERROR_CONFIDENCE == 30
MAX_DATA_POINTS == 6

None == <<>>
Some(x) == <<x>>

Min(a, b) == IF a < b THEN a ELSE b

\* s[:n]
Prefix(s, n) == SubSeq(s, 1, Min(n, Len(s)))

\* s[-n:]
Suffix(s, n) == IF Len(s) <= n THEN s ELSE SubSeq(s, Len(s) - n + 1, Len(s))

\* -------------------------------------------------------------------- text
Whitespace == {" "}

\* str.lower() on the words of the fund names
LowerWords ==
    ("Asset" :> "asset")
    @@ ("Axis" :> "axis")
    @@ ("Blue" :> "blue")
    @@ ("Cap" :> "cap")
    @@ ("Chip" :> "chip")
    @@ ("DSP" :> "dsp")
    @@ ("Debt" :> "debt")
    @@ ("Emerging" :> "emerging")
    @@ ("Equity" :> "equity")
    @@ ("Flexi" :> "flexi")
    @@ ("Fund" :> "fund")
    @@ ("Growth" :> "growth")
    @@ ("HDFC" :> "hdfc")
    @@ ("ICICI" :> "icici")
    @@ ("Index" :> "index")
    @@ ("India" :> "india")
    @@ ("Kotak" :> "kotak")
    @@ ("Large" :> "large")
    @@ ("Long" :> "long")
    @@ ("MF" :> "mf")
    @@ ("Mid" :> "mid")
    @@ ("Mirae" :> "mirae")
    @@ ("Nifty" :> "nifty")
    @@ ("Nippon" :> "nippon")
    @@ ("PPFAS" :> "ppfas")
    @@ ("Parag" :> "parag")
    @@ ("Parikh" :> "parikh")
    @@ ("Plan" :> "plan")
    @@ ("Prudential" :> "prudential")
    @@ ("SBI" :> "sbi")
    @@ ("Saver" :> "saver")
    @@ ("Short" :> "short")
    @@ ("Small" :> "small")
    @@ ("Tax" :> "tax")
    @@ ("Term" :> "term")
    @@ ("Top" :> "top")
    @@ ("UTI" :> "uti")

\* str.lower() on the tokens of the vocabulary
LowerTok(t) ==
    CASE t = "What is" -> "what is"
      [] t = "SIP" -> "sip"
      [] t = "Apologize" -> "apologize"
      [] t = "Best" -> "best"
      [] t = "Last" -> "last"
      [] OTHER -> IF t \in DOMAIN LowerWords THEN LowerWords[t] ELSE t

lower(s) == [i \in DOMAIN s |-> LowerTok(s[i])]

RECURSIVE lstrip(_)
lstrip(s) == IF s # <<>> /\ Head(s) \in Whitespace THEN lstrip(Tail(s)) ELSE s

RECURSIVE rstrip(_)
rstrip(s) ==
    IF s # <<>> /\ s[Len(s)] \in Whitespace THEN rstrip(SubSeq(s, 1, Len(s) - 1)) ELSE s

strip(s) == rstrip(lstrip(s))

\* Python's "pat in s" for a non-empty pattern
Contains(s, pat) ==
    \E i \in 1..(Len(s) - Len(pat) + 1) : SubSeq(s, i, i + Len(pat) - 1) = pat

ContainsAny(s, kws) == \E i \in DOMAIN s : s[i] \in kws

\* ------------------------------------------------------- response records
DEFAULT_RISK_DISCLAIMER == <<"Mutual fund investments are subject to market risks.">>

STANDARD_RISK_DISCLAIMER ==
    <<"Mutual fund investments are subject to market risks.",
      " The information provided is for educational purposes only.">>

REJECTION_MESSAGE == <<"I'm a financial advisor assistant. Please ask me something related to investments or finance!">>

\* a keyword argument of a constructor, or the field's default
Field(kw, name, default) == IF name \in DOMAIN kw THEN kw[name] ELSE default

\* pydantic model: unknown keyword arguments are ignored, missing ones default
InvestmentResponse(kw) ==
    [explanation |-> Field(kw, "explanation", <<>>),
     data_points |-> Field(kw, "data_points", <<>>),
     sources |-> Field(kw, "sources", <<>>),
     risk_disclaimer |-> Field(kw, "risk_disclaimer", DEFAULT_RISK_DISCLAIMER),
     confidence_score |-> Field(kw, "confidence_score", DEFAULT_CONFIDENCE)]

DataPoint(metric, value, as_of_date) ==
    [metric |-> metric, value |-> value, as_of_date |-> as_of_date]

Source(name, url) == [name |-> name, url |-> url]

\* ------------------------------------------------------------ fetched data
AMFI_FUND_URL == "https://www.amfiindia.com/net-asset-value-details?mf=ALL&cat=ALL&aession=CURRENTDATE&SchemeCode="
AMFI_NAV_URL == <<"https://www.amfiindia.com/net-asset-value-details">>
YAHOO_QUOTE_URL == "https://finance.yahoo.com/quote/"

get_amfi_fund_url(scheme_code) == <<AMFI_FUND_URL, scheme_code>>

get_yahoo_stock_url(symbol) == <<YAHOO_QUOTE_URL, symbol, "/">>

\* the constructor fills an empty source_url from the scheme code
FundResearchResult(kw) ==
    [scheme_code |-> kw.scheme_code,
     scheme_name |-> kw.scheme_name,
     nav |-> Field(kw, "nav", None),
     nav_date |-> Field(kw, "nav_date", None),
     category |-> Field(kw, "category", None),
     fund_house |-> Field(kw, "fund_house", None),
     returns |-> Field(kw, "returns", <<>>),
     source_url |-> IF Field(kw, "source_url", <<>>) = <<>>
                    THEN get_amfi_fund_url(kw.scheme_code)
                    ELSE kw.source_url]

StockResearchResult(kw) ==
    [symbol |-> kw.symbol,
     name |-> Field(kw, "name", None),
     current_price |-> Field(kw, "current_price", None),
     change_percent |-> Field(kw, "change_percent", None),
     source_url |-> IF Field(kw, "source_url", <<>>) = <<>> /\ kw.symbol # ""
                    THEN get_yahoo_stock_url(kw.symbol)
                    ELSE Field(kw, "source_url", <<>>)]

Ret(period, value) == [period |-> period, value |-> value]

\* get_fallback_funds(): the seed dicts in the order of the dict
FALLBACK_FUNDS ==
    <<
      [key |-> "large cap", scheme_code |-> "119598", scheme_name |-> "SBI Blue Chip Fund - Growth",
       nav |-> "85.67", category |-> "Large Cap", fund_house |-> "SBI MF",
       returns |-> <<Ret("1y", "15.3%"), Ret("3y", "12.8%")>>],
      [key |-> "large cap", scheme_code |-> "118834", scheme_name |-> "HDFC Top 100 Fund - Growth",
       nav |-> "924.12", category |-> "Large Cap", fund_house |-> "HDFC MF",
       returns |-> <<Ret("1y", "14.7%"), Ret("3y", "11.9%")>>],
      [key |-> "large cap", scheme_code |-> "120503", scheme_name |-> "Axis Bluechip Fund - Growth",
       nav |-> "52.34", category |-> "Large Cap", fund_house |-> "Axis MF",
       returns |-> <<Ret("1y", "13.8%"), Ret("3y", "10.5%")>>],
      [key |-> "large cap", scheme_code |-> "118989", scheme_name |-> "Mirae Asset Large Cap Fund - Growth",
       nav |-> "98.45", category |-> "Large Cap", fund_house |-> "Mirae Asset MF",
       returns |-> <<Ret("1y", "17.5%"), Ret("3y", "14.2%")>>],
      [key |-> "large cap", scheme_code |-> "120505", scheme_name |-> "ICICI Prudential Bluechip Fund - Growth",
       nav |-> "78.92", category |-> "Large Cap", fund_house |-> "ICICI Prudential MF",
       returns |-> <<Ret("1y", "16.2%"), Ret("3y", "13.1%")>>],
      [key |-> "mid cap", scheme_code |-> "118778", scheme_name |-> "Nippon India Growth Fund - Growth",
       nav |-> "3245.67", category |-> "Mid Cap", fund_house |-> "Nippon India MF",
       returns |-> <<Ret("1y", "26.8%"), Ret("3y", "21.5%")>>],
      [key |-> "mid cap", scheme_code |-> "120837", scheme_name |-> "Axis Midcap Fund - Growth",
       nav |-> "89.23", category |-> "Mid Cap", fund_house |-> "Axis MF",
       returns |-> <<Ret("1y", "22.5%"), Ret("3y", "18.2%")>>],
      [key |-> "mid cap", scheme_code |-> "118989", scheme_name |-> "Kotak Emerging Equity Fund - Growth",
       nav |-> "95.67", category |-> "Mid Cap", fund_house |-> "Kotak MF",
       returns |-> <<Ret("1y", "24.1%"), Ret("3y", "19.5%")>>],
      [key |-> "mid cap", scheme_code |-> "119064", scheme_name |-> "DSP Midcap Fund - Growth",
       nav |-> "112.34", category |-> "Mid Cap", fund_house |-> "DSP MF",
       returns |-> <<Ret("1y", "21.8%"), Ret("3y", "17.9%")>>],
      [key |-> "small cap", scheme_code |-> "125494", scheme_name |-> "Nippon India Small Cap Fund - Growth",
       nav |-> "145.67", category |-> "Small Cap", fund_house |-> "Nippon India MF",
       returns |-> <<Ret("1y", "32.5%"), Ret("3y", "25.2%")>>],
      [key |-> "small cap", scheme_code |-> "125497", scheme_name |-> "SBI Small Cap Fund - Growth",
       nav |-> "167.89", category |-> "Small Cap", fund_house |-> "SBI MF",
       returns |-> <<Ret("1y", "28.7%"), Ret("3y", "22.1%")>>],
      [key |-> "index", scheme_code |-> "100356", scheme_name |-> "UTI Nifty 50 Index Fund - Growth",
       nav |-> "145.67", category |-> "Index Fund", fund_house |-> "UTI MF",
       returns |-> <<Ret("1y", "14.5%"), Ret("3y", "12.0%")>>],
      [key |-> "index", scheme_code |-> "120684", scheme_name |-> "HDFC Index Fund - Nifty 50 Plan",
       nav |-> "198.34", category |-> "Index Fund", fund_house |-> "HDFC MF",
       returns |-> <<Ret("1y", "14.3%"), Ret("3y", "11.8%")>>],
      [key |-> "elss", scheme_code |-> "120503", scheme_name |-> "Axis Long Term Equity Fund - Growth",
       nav |-> "78.45", category |-> "ELSS", fund_house |-> "Axis MF",
       returns |-> <<Ret("1y", "16.2%"), Ret("3y", "13.5%")>>],
      [key |-> "elss", scheme_code |-> "119775", scheme_name |-> "Mirae Asset Tax Saver Fund - Growth",
       nav |-> "42.67", category |-> "ELSS", fund_house |-> "Mirae Asset MF",
       returns |-> <<Ret("1y", "18.9%"), Ret("3y", "15.2%")>>],
      [key |-> "flexi cap", scheme_code |-> "120847", scheme_name |-> "Parag Parikh Flexi Cap Fund - Growth",
       nav |-> "67.89", category |-> "Flexi Cap", fund_house |-> "PPFAS MF",
       returns |-> <<Ret("1y", "19.8%"), Ret("3y", "16.5%")>>],
      [key |-> "flexi cap", scheme_code |-> "118825", scheme_name |-> "HDFC Flexi Cap Fund - Growth",
       nav |-> "1456.78", category |-> "Flexi Cap", fund_house |-> "HDFC MF",
       returns |-> <<Ret("1y", "17.2%"), Ret("3y", "14.8%")>>],
      [key |-> "debt", scheme_code |-> "119551", scheme_name |-> "HDFC Short Term Debt Fund - Growth",
       nav |-> "28.45", category |-> "Debt", fund_house |-> "HDFC MF",
       returns |-> <<Ret("1y", "7.2%"), Ret("3y", "6.8%")>>],
      [key |-> "debt", scheme_code |-> "119552", scheme_name |-> "ICICI Prudential Short Term Fund - Growth",
       nav |-> "52.34", category |-> "Debt", fund_house |-> "ICICI Prudential MF",
       returns |-> <<Ret("1y", "7.5%"), Ret("3y", "7.1%")>>]
    >>

\* the characters of the strings, as tokens: words, parts of words, blanks
TextOf ==
    ("large cap" :> <<"large", " ", "cap">>)
    @@ ("SBI Blue Chip Fund - Growth" :> <<"SBI", " ", "Blue", " ", "Chip", " ", "Fund", " ", "-", " ", "Growth">>)
    @@ ("Large Cap" :> <<"Large", " ", "Cap">>)
    @@ ("SBI MF" :> <<"SBI", " ", "MF">>)
    @@ ("HDFC Top 100 Fund - Growth" :> <<"HDFC", " ", "Top", " ", "100", " ", "Fund", " ", "-", " ", "Growth">>)
    @@ ("HDFC MF" :> <<"HDFC", " ", "MF">>)
    @@ ("Axis Bluechip Fund - Growth" :> <<"Axis", " ", "Blue", "chip", " ", "Fund", " ", "-", " ", "Growth">>)
    @@ ("Axis MF" :> <<"Axis", " ", "MF">>)
    @@ ("Mirae Asset Large Cap Fund - Growth" :> <<"Mirae", " ", "Asset", " ", "Large", " ", "Cap", " ", "Fund", " ", "-", " ", "Growth">>)
    @@ ("Mirae Asset MF" :> <<"Mirae", " ", "Asset", " ", "MF">>)
    @@ ("ICICI Prudential Bluechip Fund - Growth" :> <<"ICICI", " ", "Prudential", " ", "Blue", "chip", " ", "Fund", " ", "-", " ", "Growth">>)
    @@ ("ICICI Prudential MF" :> <<"ICICI", " ", "Prudential", " ", "MF">>)
    @@ ("mid cap" :> <<"mid", " ", "cap">>)
    @@ ("Nippon India Growth Fund - Growth" :> <<"Nippon", " ", "India", " ", "Growth", " ", "Fund", " ", "-", " ", "Growth">>)
    @@ ("Mid Cap" :> <<"Mid", " ", "Cap">>)
    @@ ("Nippon India MF" :> <<"Nippon", " ", "India", " ", "MF">>)
    @@ ("Axis Midcap Fund - Growth" :> <<"Axis", " ", "Mid", "cap", " ", "Fund", " ", "-", " ", "Growth">>)
    @@ ("Kotak Emerging Equity Fund - Growth" :> <<"Kotak", " ", "Emerging", " ", "Equity", " ", "Fund", " ", "-", " ", "Growth">>)
    @@ ("Kotak MF" :> <<"Kotak", " ", "MF">>)
    @@ ("DSP Midcap Fund - Growth" :> <<"DSP", " ", "Mid", "cap", " ", "Fund", " ", "-", " ", "Growth">>)
    @@ ("DSP MF" :> <<"DSP", " ", "MF">>)
    @@ ("small cap" :> <<"small", " ", "cap">>)
    @@ ("Nippon India Small Cap Fund - Growth" :> <<"Nippon", " ", "India", " ", "Small", " ", "Cap", " ", "Fund", " ", "-", " ", "Growth">>)
    @@ ("Small Cap" :> <<"Small", " ", "Cap">>)
    @@ ("SBI Small Cap Fund - Growth" :> <<"SBI", " ", "Small", " ", "Cap", " ", "Fund", " ", "-", " ", "Growth">>)
    @@ ("UTI Nifty 50 Index Fund - Growth" :> <<"UTI", " ", "Nifty", " ", "50", " ", "Index", " ", "Fund", " ", "-", " ", "Growth">>)
    @@ ("Index Fund" :> <<"Index", " ", "Fund">>)
    @@ ("UTI MF" :> <<"UTI", " ", "MF">>)
    @@ ("HDFC Index Fund - Nifty 50 Plan" :> <<"HDFC", " ", "Index", " ", "Fund", " ", "-", " ", "Nifty", " ", "50", " ", "Plan">>)
    @@ ("Axis Long Term Equity Fund - Growth" :> <<"Axis", " ", "Long", " ", "Term", " ", "Equity", " ", "Fund", " ", "-", " ", "Growth">>)
    @@ ("Mirae Asset Tax Saver Fund - Growth" :> <<"Mirae", " ", "Asset", " ", "Tax", " ", "Saver", " ", "Fund", " ", "-", " ", "Growth">>)
    @@ ("flexi cap" :> <<"flexi", " ", "cap">>)
    @@ ("Parag Parikh Flexi Cap Fund - Growth" :> <<"Parag", " ", "Parikh", " ", "Flexi", " ", "Cap", " ", "Fund", " ", "-", " ", "Growth">>)
    @@ ("Flexi Cap" :> <<"Flexi", " ", "Cap">>)
    @@ ("PPFAS MF" :> <<"PPFAS", " ", "MF">>)
    @@ ("HDFC Flexi Cap Fund - Growth" :> <<"HDFC", " ", "Flexi", " ", "Cap", " ", "Fund", " ", "-", " ", "Growth">>)
    @@ ("HDFC Short Term Debt Fund - Growth" :> <<"HDFC", " ", "Short", " ", "Term", " ", "Debt", " ", "Fund", " ", "-", " ", "Growth">>)
    @@ ("ICICI Prudential Short Term Fund - Growth" :> <<"ICICI", " ", "Prudential", " ", "Short", " ", "Term", " ", "Fund", " ", "-", " ", "Growth">>)
    @@ ("parag parikh" :> <<"parag", " ", "parikh">>)
    @@ ("sbi bluechip" :> <<"sbi", " ", "blue", "chip">>)
    @@ ("balanced hybrid" :> <<"balanced", " ", "hybrid">>)
    @@ ("short term" :> <<"short", " ", "term">>)
    @@ ("conservative hybrid" :> <<"conservative", " ", "hybrid">>)
    @@ ("best of sbi" :> <<"best", " ", "of", " ", "sbi">>)
    @@ ("utility" :> <<"uti", "lity">>)
    @@ ("" :> <<>>)

\* the tokens of at most two characters
ShortWords == {"-", "50", "mf", "of"}

fund_keywords ==
    <<<<"sbi", "large cap">>, <<"hdfc", "large cap">>, <<"axis", "large cap">>, <<"icici", "large cap">>, <<"mirae", "large cap">>, <<"kotak", "mid cap">>, <<"nippon", "mid cap">>, <<"parag parikh", "flexi cap">>, <<"ppfas", "flexi cap">>, <<"uti", "index">>, <<"nifty", "index">>>>

FundQueries ==
    {"large cap", "Large Cap", "mid cap", "small cap", "sbi bluechip", "elss", "index", "flexi cap", "balanced hybrid", "debt", "liquid", "sectoral", "short term", "conservative hybrid", "best of sbi", "utility", "xyz", ""}

Text(s) == IF s \in DOMAIN TextOf THEN TextOf[s] ELSE <<s>>

\* str.split() of a text without leading or trailing blanks
RECURSIVE split(_)
split(s) ==
    IF s = <<>> THEN <<>>
    ELSE LET blanks == { i \in DOMAIN s : s[i] \in Whitespace }
             cut == IF blanks = {} THEN Len(s) + 1
                    ELSE CHOOSE i \in blanks : \A j \in blanks : i <= j
         IN  <<SubSeq(s, 1, cut - 1)>> \o split(lstrip(SubSeq(s, cut, Len(s))))

ResultOf(f) ==
    FundResearchResult([scheme_code |-> f.scheme_code, scheme_name |-> f.scheme_name,
                        nav |-> Some(f.nav), nav_date |-> Some("today"),
                        category |-> Some(f.category), fund_house |-> Some(f.fund_house),
                        returns |-> f.returns])

\* the score of one seed fund: per query word 3 for the name, else 2 for the
\* fund house, else 1 for the category
RECURSIVE FallbackScore(_, _)
FallbackScore(query_words, fund) ==
    IF query_words = <<>> THEN 0
    ELSE LET word == Head(query_words)
         IN  (IF Contains(lower(Text(fund.scheme_name)), word) THEN 3
              ELSE IF Contains(lower(Text(fund.fund_house)), word) THEN 2
              ELSE IF Contains(lower(Text(fund.category)), word) THEN 1
              ELSE 0) + FallbackScore(Tail(query_words), fund)

QueryWords(query) ==
    LET words == split(strip(lower(Text(query))))
    IN  SelectSeq(words, LAMBDA w : ~(Len(w) = 1 /\ w[1] \in ShortWords))

\* list.sort(key = score, reverse = True) is stable: equal scores keep the
\* order of the seed data
RECURSIVE SortedByScore(_, _, _)
SortedByScore(funds, query_words, score) ==
    IF score = 0 THEN <<>>
    ELSE SelectSeq(funds, LAMBDA f : FallbackScore(query_words, f) = score)
         \o SortedByScore(funds, query_words, score - 1)

\* the first fund_keywords entry that yields funds, 0 for none
LegacyMatch(query_lower) ==
    LET Matching(k) ==
            SelectSeq(FALLBACK_FUNDS,
                      LAMBDA f : /\ f.key = fund_keywords[k][2]
                                 /\ \/ Contains(lower(Text(f.scheme_name)), Text(fund_keywords[k][1]))
                                    \/ Contains(lower(Text(f.fund_house)), Text(fund_keywords[k][1])))
        hits == { k \in DOMAIN fund_keywords :
                    Contains(query_lower, Text(fund_keywords[k][1])) /\ Matching(k) # <<>> }
    IN  IF hits = {} THEN <<>>
        ELSE Matching(CHOOSE k \in hits : \A j \in hits : k <= j)

_get_fallback_funds_for_query(query) ==
    LET query_lower == lower(Text(query))
        query_words == QueryWords(query)
        scored_funds == SortedByScore(FALLBACK_FUNDS, query_words, 3 * Len(query_words))
        by_category ==
            SelectSeq(FALLBACK_FUNDS,
                      LAMBDA f : \/ Contains(query_lower, Text(f.key))
                                 \/ Contains(Text(f.key), query_lower))
        legacy == LegacyMatch(query_lower)
        chosen ==
            IF scored_funds # <<>> THEN Prefix(scored_funds, 5)
            ELSE IF by_category # <<>>
                 THEN SelectSeq(by_category, LAMBDA f : f.key = by_category[1].key)
            ELSE IF legacy # <<>> THEN legacy
            ELSE Prefix(SelectSeq(FALLBACK_FUNDS, LAMBDA f : f.key = "large cap"), 3)
    IN  [i \in DOMAIN chosen |-> ResultOf(chosen[i])]

\* a live record that lacks NAV and returns
FUND_LIVE_BARE ==
    FundResearchResult([scheme_code |-> "119598", scheme_name |-> "SBI BLUE CHIP FUND-REGULAR PLAN GROWTH"])

STOCK_OK ==
    StockResearchResult([symbol |-> "RELIANCE.NS", name |-> Some("Reliance Industries"),
                         current_price |-> Some("2450.0"), change_percent |-> Some("1.25")])
\* Yahoo returned no regularMarketChangePercent
STOCK_NO_CHANGE ==
    StockResearchResult([symbol |-> "RELIANCE.NS", current_price |-> Some("2450.0")])

\* a live overview whose quote carries no change_percent
MARKET_LIVE_NO_CHANGE ==
    [indices |-> <<[name |-> "NIFTY50", change_percent |-> None]>>,
     source_urls |-> <<[name |-> "NIFTY50", url |-> <<YAHOO_QUOTE_URL, "^NSEI", "/">>],
                       [name |-> "SENSEX", url |-> <<YAHOO_QUOTE_URL, "^BSESN", "/">>]>>]

MARKET_FALLBACK ==
    [indices |-> <<[name |-> "NIFTY50", change_percent |-> Some("1.2")],
                   [name |-> "SENSEX", change_percent |-> Some("0.8")]>>,
     source_urls |-> <<[name |-> "NIFTY50", url |-> <<YAHOO_QUOTE_URL, "^NSEI", "/">>],
                       [name |-> "SENSEX", url |-> <<YAHOO_QUOTE_URL, "^BSESN", "/">>],
                       [name |-> "NIFTYBANK", url |-> <<YAHOO_QUOTE_URL, "^NSEBANK", "/">>]>>]

EmptyData == [funds |-> <<>>, stocks |-> <<>>, market |-> None, categories |-> <<>>]

\* ------------------------------------------------------------- environment
\* what the providers answer: research_mutual_fund never raises and, thanks to
\* the seed data, never answers an empty list; research_stock may raise,
\* answer None or a record
\* the answers of _get_fallback_funds_for_query to the queries of the model;
\* a provider carries them as its seed field
FallbackAnswers == [q \in FundQueries |-> _get_fallback_funds_for_query(q)]

Providers ==
    { [funds |-> "seed", seed |-> FallbackAnswers,
       stock |-> [kind |-> "ok", result |-> STOCK_OK], market |-> MARKET_FALLBACK],
      [funds |-> "live", seed |-> FallbackAnswers,
       stock |-> [kind |-> "ok", result |-> STOCK_NO_CHANGE], market |-> MARKET_FALLBACK],
      [funds |-> "live", seed |-> FallbackAnswers,
       stock |-> [kind |-> "raise", result |-> STOCK_OK], market |-> MARKET_LIVE_NO_CHANGE] }

\* prov.funds is "live" when search_funds and get_fund_details answer; when
\* the service raises or finds nothing the results stay empty
research_mutual_fund(prov, query) ==
    LET results == IF prov.funds = "live" THEN <<FUND_LIVE_BARE>> ELSE <<>>
    IN  IF results # <<>> THEN results
        ELSE prov.seed[query]

search_funds_by_category(prov, category, limit) ==
    LET results == Prefix(research_mutual_fund(prov, category), limit)
        in_category == SelectSeq(FALLBACK_FUNDS, LAMBDA f : Text(f.key) = lower(Text(category)))
    IN  IF results # <<>> THEN results
        ELSE [i \in DOMAIN Prefix(in_category, limit) |-> ResultOf(in_category[i])]

\* the arguments of the analyzer's tool call, as the LLM fills them
AnalyzerArgs ==
    { [is_finance_related |-> TRUE, intent |-> "general", fund_names |-> <<>>,
       fund_categories |-> <<>>, stock_symbols |-> <<>>, needs_market_data |-> FALSE,
       search_terms |-> <<>>],
      [is_finance_related |-> TRUE, intent |-> "info", fund_names |-> <<"sbi bluechip">>,
       fund_categories |-> <<>>, stock_symbols |-> <<"RELIANCE">>, needs_market_data |-> TRUE,
       search_terms |-> <<"sbi bluechip">>],
      [is_finance_related |-> TRUE, intent |-> "recommend", fund_names |-> <<>>,
       fund_categories |-> <<"large cap">>, stock_symbols |-> <<>>, needs_market_data |-> FALSE,
       search_terms |-> <<>>],
      [is_finance_related |-> FALSE, intent |-> "off_topic", fund_names |-> <<>>,
       fund_categories |-> <<>>, stock_symbols |-> <<>>, needs_market_data |-> FALSE,
       search_terms |-> <<>>],
      [is_finance_related |-> TRUE, intent |-> "off_topic", fund_names |-> <<"sbi bluechip">>,
       fund_categories |-> <<"large cap">>, stock_symbols |-> <<"RELIANCE">>,
       needs_market_data |-> TRUE, search_terms |-> <<>>],
      [is_finance_related |-> FALSE, intent |-> "general", fund_names |-> <<>>,
       fund_categories |-> <<"large cap">>, stock_symbols |-> <<>>, needs_market_data |-> TRUE,
       search_terms |-> <<>>] }

\* analyze_query_llm: the QueryAnalysis built from the tool-call arguments
QueryAnalysis(args) ==
    [fund_names |-> args.fund_names,
     fund_categories |-> args.fund_categories,
     stock_symbols |-> args.stock_symbols,
     intent |-> args.intent,
     needs_market_data |-> args.needs_market_data,
     search_terms |-> args.search_terms,
     is_finance_related |-> args.is_finance_related,
     rejection_message |-> IF ~args.is_finance_related \/ args.intent = "off_topic"
                           THEN REJECTION_MESSAGE ELSE <<>>]

Analyses == { QueryAnalysis(args) : args \in AnalyzerArgs }

IsOffTopic(analysis) == ~analysis.is_finance_related \/ analysis.intent = "off_topic"

\* structured outputs of the answering LLM (any field is the model's choice)
LLMOutputs ==
    { InvestmentResponse([explanation |-> <<"## Answer">>,
                          data_points |-> <<DataPoint(<<"NAV">>, <<"85.67">>, "today")>>,
                          sources |-> <<Source(<<"AMFI India">>, AMFI_NAV_URL)>>,
                          risk_disclaimer |-> STANDARD_RISK_DISCLAIMER,
                          confidence_score |-> 85]),
      InvestmentResponse([explanation |-> <<"## Short answer">>,
                          risk_disclaimer |-> <<>>,
                          confidence_score |-> 0]),
      InvestmentResponse([explanation |-> <<"## Unsure">>,
                          confidence_score |-> 30]),
      InvestmentResponse([explanation |-> <<"We ", "Apologize", " for the delay">>]),
      InvestmentResponse([explanation |-> <<>>]),
      InvestmentResponse([explanation |-> <<" ">>, confidence_score |-> 50]) }

LLMOutcomes ==
    { [raised |-> TRUE, output |-> InvestmentResponse([explanation |-> <<>>])] }
    \cup { [raised |-> FALSE, output |-> o] : o \in LLMOutputs }

\* ------------------------------------------------------------ Agent Runner
\* keyword lists restricted to the vocabulary of the modelled messages
data_needed_keywords == {"nav", "price", "current", "today", "now", "latest", "return",
                         "performance", "best", "top", "compare", "recommend", "which"}
simple_keywords == {"what is", "what are", "explain", "why", "how does", "risk"}

is_simple_query(query) ==
    IF ContainsAny(lower(query), data_needed_keywords) THEN FALSE
    ELSE ContainsAny(lower(query), simple_keywords)

RECURSIVE SeqMember(_, _)
SeqMember(x, s) == s # <<>> /\ (Head(s) = x \/ SeqMember(x, Tail(s)))

\* all_search_queries: fund_names[:3], then the search_terms[:5] not yet listed
RECURSIVE AddTerms(_, _)
AddTerms(queries, terms) ==
    IF terms = <<>> THEN queries
    ELSE IF SeqMember(LowerTok(Head(terms)), [i \in DOMAIN queries |-> LowerTok(queries[i])])
         THEN AddTerms(queries, Tail(terms))
         ELSE AddTerms(Append(queries, Head(terms)), Tail(terms))

\* the inner loop over results[:3]: keep the funds whose scheme_code is new
RECURSIVE AddNewFunds(_, _)
AddNewFunds(funds, results) ==
    IF results = <<>> THEN funds
    ELSE IF \E i \in DOMAIN funds : funds[i].scheme_code = Head(results).scheme_code
         THEN AddNewFunds(funds, Tail(results))
         ELSE AddNewFunds(Append(funds, Head(results)), Tail(results))

\* the loop over all_search_queries; st = [funds, calls]
RECURSIVE SearchLoop(_, _, _)
SearchLoop(prov, st, queries) ==
    IF queries = <<>> \/ Len(st.funds) >= 5 THEN st
    ELSE SearchLoop(prov,
                    [funds |-> AddNewFunds(st.funds, Prefix(research_mutual_fund(prov, Head(queries)), 3)),
                     calls |-> Append(st.calls, "research_mutual_fund")],
                    Tail(queries))

\* the loop over fund_categories[:2]; st = [categories, calls]
RECURSIVE CategoryLoop(_, _, _, _)
CategoryLoop(prov, st, cats, limit) ==
    IF cats = <<>> THEN st
    ELSE LET results == search_funds_by_category(prov, Head(cats), limit)
         IN CategoryLoop(prov,
                         [categories |-> IF results # <<>>
                                         THEN Append(st.categories,
                                                     [category |-> Head(cats), funds |-> results])
                                         ELSE st.categories,
                          calls |-> Append(st.calls, "search_funds_by_category")],
                         Tail(cats), limit)

\* the loop over stock_symbols[:3]; st = [stocks, calls]
RECURSIVE StockLoop(_, _, _)
StockLoop(prov, st, symbols) ==
    IF symbols = <<>> THEN st
    ELSE StockLoop(prov,
                   [stocks |-> IF prov.stock.kind = "ok"
                               THEN Append(st.stocks, prov.stock.result) ELSE st.stocks,
                    calls |-> Append(st.calls, "research_stock")],
                   Tail(symbols))

\* returns [data, analysis, calls]; calls lists the external calls in order
\* fetch_relevant_data after its early return (lines 320-404)
fetch_for_analysis(query, analysis, prov) ==
    LET queries == AddTerms(Prefix(analysis.fund_names, 3), Prefix(analysis.search_terms, 5))
        s1 == SearchLoop(prov, [funds |-> <<>>, calls |-> <<"analyze_query">>], queries)
        s2 == CategoryLoop(prov, [categories |-> <<>>, calls |-> s1.calls],
                           Prefix(analysis.fund_categories, 2), 5)
        dflt == s1.funds = <<>> /\ s2.categories = <<>>
                /\ analysis.intent \in {"recommend", "compare", "analyze"}
        s3 == IF dflt
              THEN CategoryLoop(prov, s2, <<"large cap">>, 5)
              ELSE s2
        calls4 == IF analysis.needs_market_data
                  THEN Append(s3.calls, "research_market_overview") ELSE s3.calls
        s5 == StockLoop(prov, [stocks |-> <<>>, calls |-> calls4],
                        Prefix(analysis.stock_symbols, 3))
    IN [data |-> [funds |-> s1.funds,
                  stocks |-> s5.stocks,
                  market |-> IF analysis.needs_market_data THEN Some(prov.market) ELSE None,
                  categories |-> s3.categories],
        analysis |-> analysis,
        calls |-> s5.calls]

fetch_relevant_data_mut_no_early_return(query, analysis, prov) ==
    fetch_for_analysis(query, analysis, prov)

fetch_relevant_data(query, analysis, prov) ==
    IF IsOffTopic(analysis)
    THEN [data |-> EmptyData, analysis |-> analysis, calls |-> <<"analyze_query">>]
    ELSE fetch_for_analysis(query, analysis, prov)

\* the profile step of run_agent: up to two recommended categories not yet in
\* the data, fetched with limit 3
RECURSIVE ProfileCategoryLoop(_, _, _)
ProfileCategoryLoop(prov, st, cats) ==
    IF cats = <<>> THEN st
    ELSE IF \E i \in DOMAIN st.categories : st.categories[i].category = Head(cats)
         THEN ProfileCategoryLoop(prov, st, Tail(cats))
         ELSE ProfileCategoryLoop(prov, CategoryLoop(prov, st, <<Head(cats)>>, 3), Tail(cats))

OrElse(opt, default) == IF opt = None THEN default ELSE opt[1]

RECURSIVE FundDataPoints(_)
FundDataPoints(funds) ==
    IF funds = <<>> THEN <<>>
    ELSE LET fund == Head(funds)
             as_of == OrElse(fund.nav_date, "today")
         IN (IF fund.nav # None
             THEN <<DataPoint(<<fund.scheme_name, "... NAV">>, <<"Rs", fund.nav[1]>>, as_of)>>
             ELSE <<>>)
            \o (IF fund.returns # <<>>
                THEN <<DataPoint(<<fund.scheme_name, "... ", fund.returns[1].period, " Return">>,
                                 <<fund.returns[1].value>>, as_of)>>
                ELSE <<>>)
            \o FundDataPoints(Tail(funds))

\* returns.get("1Y", returns.get("1y", "N/A"))
OneYear(returns) ==
    IF \E i \in DOMAIN returns : returns[i].period = "1Y"
    THEN returns[CHOOSE i \in DOMAIN returns : returns[i].period = "1Y"].value
    ELSE IF \E i \in DOMAIN returns : returns[i].period = "1y"
         THEN returns[CHOOSE i \in DOMAIN returns : returns[i].period = "1y"].value
         ELSE "N/A"

RECURSIVE CategoryDataPoints(_)
CategoryDataPoints(funds) ==
    IF funds = <<>> THEN <<>>
    ELSE LET fund == Head(funds)
         IN (IF fund.returns # <<>>
             THEN <<DataPoint(<<fund.scheme_name, "...">>, <<"1Y: ", OneYear(fund.returns)>>,
                              OrElse(fund.nav_date, "today"))>>
             ELSE <<>>)
            \o CategoryDataPoints(Tail(funds))

create_data_points_from_data(data) ==
    Prefix(FundDataPoints(Prefix(data.funds, 4))
           \o (IF data.categories # <<>>
               THEN CategoryDataPoints(Prefix(data.categories[1].funds, 3))
               ELSE <<>>),
           MAX_DATA_POINTS)

\* append the candidates whose URL was not added before
RECURSIVE AddSources(_, _)
AddSources(sources, cands) ==
    IF cands = <<>> THEN sources
    ELSE IF \E i \in DOMAIN sources : sources[i].url = Head(cands).url
         THEN AddSources(sources, Tail(cands))
         ELSE AddSources(Append(sources, Head(cands)), Tail(cands))

\* url = getattr(fund, 'source_url', '') or f"...?SchemeCode={fund.scheme_code}"
FundSources(funds) ==
    [i \in DOMAIN funds |->
       Source(<<"AMFI India - ", funds[i].scheme_name>>,
              IF funds[i].source_url # <<>> THEN funds[i].source_url
              ELSE <<"https://www.amfiindia.com/net-asset-value-details?SchemeCode=",
                     funds[i].scheme_code>>)]

create_sources_from_data_mut_no_dedup(data) ==
    LET cands ==
            FundSources(Prefix(data.funds, 3))
            \o (IF data.categories # <<>>
                THEN FundSources(Prefix(data.categories[1].funds, 2)) ELSE <<>>)
            \o [i \in DOMAIN Prefix(data.stocks, 3) |->
                   Source(<<"Yahoo Finance - ", OrElse(data.stocks[i].name, data.stocks[i].symbol)>>,
                          IF data.stocks[i].source_url # <<>> THEN data.stocks[i].source_url
                          ELSE <<YAHOO_QUOTE_URL, data.stocks[i].symbol, "/">>)]
            \o (IF data.market # None
                THEN [i \in DOMAIN Prefix(data.market[1].source_urls, 2) |->
                        Source(<<"Yahoo Finance - ", data.market[1].source_urls[i].name>>,
                               data.market[1].source_urls[i].url)]
                ELSE <<>>)
        sources == cands
    IN IF sources = <<>>
       THEN <<Source(<<"AMFI India - NAV Data">>, AMFI_NAV_URL)>>
       ELSE sources

create_sources_from_data(data) ==
    LET cands ==
            FundSources(Prefix(data.funds, 3))
            \o (IF data.categories # <<>>
                THEN FundSources(Prefix(data.categories[1].funds, 2)) ELSE <<>>)
            \o [i \in DOMAIN Prefix(data.stocks, 3) |->
                   Source(<<"Yahoo Finance - ", OrElse(data.stocks[i].name, data.stocks[i].symbol)>>,
                          IF data.stocks[i].source_url # <<>> THEN data.stocks[i].source_url
                          ELSE <<YAHOO_QUOTE_URL, data.stocks[i].symbol, "/">>)]
            \o (IF data.market # None
                THEN [i \in DOMAIN Prefix(data.market[1].source_urls, 2) |->
                        Source(<<"Yahoo Finance - ", data.market[1].source_urls[i].name>>,
                               data.market[1].source_urls[i].url)]
                ELSE <<>>)
        sources == AddSources(<<>>, cands)
    IN IF sources = <<>>
       THEN <<Source(<<"AMFI India - NAV Data">>, AMFI_NAV_URL)>>
       ELSE sources

\* f"{x:+.2f}" raises TypeError on None
FormatRaises(change_percent) == change_percent = None

format_data_for_prompt_raises(data) ==
    \/ data.market # None
       /\ \E i \in DOMAIN data.market[1].indices :
             FormatRaises(data.market[1].indices[i].change_percent)
    \/ \E i \in DOMAIN data.stocks : FormatRaises(data.stocks[i].change_percent)

_generate_fallback_explanation_raises(data) ==
    /\ ~(data.funds = <<>> /\ data.categories = <<>> /\ data.stocks = <<>>)
    /\ \E i \in DOMAIN Prefix(data.stocks, 3) : FormatRaises(data.stocks[i].change_percent)

NO_DATA_EXPLANATION ==
    <<"I couldn't find specific data for your query. Please ", "try asking",
      " about a specific mutual fund (e.g., 'SBI Bluechip Fund') or stock (e.g., 'Reliance Industries').">>

RECURSIVE FundSections(_)
FundSections(funds) ==
    IF funds = <<>> THEN <<>>
    ELSE <<"### ", Head(funds).scheme_name>> \o FundSections(Tail(funds))

\* the text rendered from the fetched data; error_msg is not used by the code
_generate_fallback_explanation(query, data, error_msg) ==
    IF data.funds = <<>> /\ data.categories = <<>> /\ data.stocks = <<>>
    THEN NO_DATA_EXPLANATION
    ELSE (IF data.funds # <<>>
          THEN <<"## Fund Information", "Here's what I found for your query about **">>
               \o Prefix(query, 50) \o <<"**:">> \o FundSections(Prefix(data.funds, 3))
          ELSE <<>>)
         \o (IF data.categories # <<>>
             THEN <<"## Top ", data.categories[1].category, " Funds">>
                  \o FundSections(Prefix(data.categories[1].funds, 5))
             ELSE <<>>)
         \o (IF data.stocks # <<>>
             THEN <<"## Stock Information">>
                  \o [i \in DOMAIN Prefix(data.stocks, 3) |-> data.stocks[i].symbol]
             ELSE <<>>)
         \o <<"## Key Considerations">>

\* UserProfile.get_recommended_categories() is list(set(...)): its order, and so
\* the two categories that [:2] keeps, is not determined by the code
RecommendedCategories(profile) ==
    CASE profile.risk_tolerance = "conservative" -> {"debt", "liquid", "short term", "conservative hybrid"}
      [] profile.risk_tolerance = "moderate" -> {"large cap", "flexi cap", "balanced hybrid", "index"}
      [] OTHER -> {"mid cap", "small cap", "flexi cap", "sectoral"}

ProfilePicks(profile) ==
    IF ~profile.present THEN {<<>>}
    ELSE { pick \in { <<"large cap", "flexi cap">>, <<"flexi cap", "index">>,
                      <<"index", "balanced hybrid">>, <<"debt", "liquid">>,
                      <<"mid cap", "sectoral">> } :
             /\ pick[1] \in RecommendedCategories(profile)
             /\ pick[2] \in RecommendedCategories(profile) }

NoProfile == [present |-> FALSE, risk_tolerance |-> "", investment_horizon |-> ""]
ModerateProfile == [present |-> TRUE, risk_tolerance |-> "moderate", investment_horizon |-> "medium_term"]
Profiles == {NoProfile, ModerateProfile}

SIMPLE_FALLBACK_HEAD == "I can help explain that! "
SIMPLE_FALLBACK_TAIL == " - Please let me provide a clear answer. Could you try asking again?"

IsBlank(text) == text = <<>> \/ strip(text) = <<>>

\* returns [is_none, response]; None signals "use the regular flow"
_handle_simple_query(user_message, outcome) ==
    IF outcome.raised
    THEN [is_none |-> TRUE, response |-> outcome.output]
    ELSE [is_none |-> FALSE,
          response |-> [outcome.output EXCEPT
                          !.explanation = IF IsBlank(outcome.output.explanation)
                                          THEN <<SIMPLE_FALLBACK_HEAD>> \o user_message
                                               \o <<SIMPLE_FALLBACK_TAIL>>
                                          ELSE outcome.output.explanation,
                          !.data_points = <<>>,
                          !.sources = <<>>,
                          !.confidence_score = SIMPLE_QA_CONFIDENCE]]

\* the response of the except branch of run_agent
FailureResponse_mut_high_confidence(user_message, data) ==
    InvestmentResponse([explanation |-> _generate_fallback_explanation(user_message, data, <<>>),
                        data_points |-> create_data_points_from_data(data),
                        sources |-> create_sources_from_data(data),
                        risk_disclaimer |-> STANDARD_RISK_DISCLAIMER,
                        confidence_score |-> SIMPLE_QA_CONFIDENCE])

FailureResponse(user_message, data) ==
    InvestmentResponse([explanation |-> _generate_fallback_explanation(user_message, data, <<>>),
                        data_points |-> create_data_points_from_data(data),
                        sources |-> create_sources_from_data(data),
                        risk_disclaimer |-> STANDARD_RISK_DISCLAIMER,
                        confidence_score |-> FAILURE_CONFIDENCE])

\* the response of the off-topic branch: the constructor is called with the
\* keywords message= and disclaimer=
OffTopicResponse(analysis) ==
    InvestmentResponse([message |-> IF analysis.rejection_message # <<>>
                                    THEN analysis.rejection_message ELSE REJECTION_MESSAGE,
                        data_points |-> <<>>,
                        sources |-> <<>>,
                        disclaimer |-> <<>>])

\* backfill of an LLM answer that lacks data points or sources
Backfill(response, data) ==
    [response EXCEPT
       !.data_points = IF response.data_points = <<>>
                       THEN create_data_points_from_data(data) ELSE response.data_points,
       !.sources = IF response.sources = <<>>
                   THEN create_sources_from_data(data) ELSE response.sources]

AgentResult(raised, response, path, calls, analysis, data) ==
    [raised |-> raised, response |-> response, path |-> path, calls |-> calls,
     analysis |-> analysis, data |-> data]

NoResponse == InvestmentResponse([explanation |-> <<>>])

\* run_agent from the assembly of the prompt on (lines 760-891): the try block
\* and its except handler
run_agent_answer(user_message, env, analysis, data, calls) ==
    IF format_data_for_prompt_raises(data)
    THEN IF _generate_fallback_explanation_raises(data)
         THEN AgentResult(TRUE, NoResponse, "raise", calls, Some(analysis), data)
         ELSE AgentResult(FALSE, FailureResponse(user_message, data), "failure", calls,
                          Some(analysis), data)
    ELSE IF env.final_llm.raised
         THEN IF _generate_fallback_explanation_raises(data)
              THEN AgentResult(TRUE, NoResponse, "raise", Append(calls, "final_llm"),
                               Some(analysis), data)
              ELSE AgentResult(FALSE, FailureResponse(user_message, data), "llm_failure",
                               Append(calls, "final_llm"), Some(analysis), data)
         ELSE AgentResult(FALSE, Backfill(env.final_llm.output, data), "success",
                          Append(calls, "final_llm"), Some(analysis), data)

\* run_agent from the result of fetch_relevant_data on (lines 734-758): the
\* off-topic return and the profile's categories
run_agent_fetched(user_message, user_profile, env, fetched, calls) ==
    IF IsOffTopic(fetched.analysis)
    THEN AgentResult(FALSE, OffTopicResponse(fetched.analysis), "off_topic", calls,
                     Some(fetched.analysis), fetched.data)
    ELSE LET withProfile ==
                 ProfileCategoryLoop(env.provider,
                     [categories |-> fetched.data.categories, calls |-> calls],
                     IF user_profile.present THEN env.profile_pick ELSE <<>>)
         IN run_agent_answer(user_message, env, fetched.analysis,
                             [fetched.data EXCEPT !.categories = withProfile.categories],
                             withProfile.calls)

\* run_agent from the data path on (lines 726-732), after the simple path
\* returned nothing
run_agent_data(user_message, user_profile, env, fetched, calls0) ==
    run_agent_fetched(user_message, user_profile, env, fetched,
                      calls0 \o <<"parse_date_query">> \o fetched.calls)

\* env = [simple_qa, analysis, provider, final_llm, profile_pick]: what the
\* simple Q&A model, the analyzer, the providers and the answering model do
run_agent(user_message, user_profile, env) ==
    LET simple_query == is_simple_query(user_message)
        result == _handle_simple_query(user_message, env.simple_qa)
        calls0 == IF simple_query THEN <<"simple_qa_agent">> ELSE <<>>
    IN IF simple_query /\ ~result.is_none /\ ~IsBlank(result.response.explanation)
       THEN AgentResult(FALSE, result.response, "simple", calls0, None, EmptyData)
       ELSE run_agent_data(user_message, user_profile, env,
                           fetch_relevant_data(user_message, env.analysis, env.provider),
                           calls0)

STREAM_ERROR_EXPLANATION ==
    <<"I ", "apologize", ", but I ", "encountered an error", ". Please try again.">>

\* numbers of text chunks the model streams before its final object
StreamLengths == {0, 2}

RECURSIVE Tokens(_)
Tokens(n) == IF n = 0 THEN <<>> ELSE Append(Tokens(n - 1), [kind |-> "str", text |-> <<"chunk">>])

StreamItem(r) == [kind |-> "InvestmentResponse", response |-> r]

\* the chunk yielded by the except handler (lines 993-1003)
StreamErrorItem(data) ==
    StreamItem(InvestmentResponse(
                   [explanation |-> STREAM_ERROR_EXPLANATION,
                    data_points |-> create_data_points_from_data(data),
                    sources |-> create_sources_from_data(data),
                    risk_disclaimer |-> STANDARD_RISK_DISCLAIMER,
                    confidence_score |-> STREAM_ERROR_CONFIDENCE]))

StreamResult(path, calls, analysis, items) ==
    [raised |-> FALSE, path |-> path, calls |-> calls, analysis |-> analysis,
     items |-> items]

\* run_agent_stream from the result of fetch_relevant_data on
run_agent_stream_fetched(env, analysis, data, calls) ==
    IF IsOffTopic(analysis)
    THEN StreamResult("off_topic", calls, analysis,
                      << [kind |-> "dict", type |-> "message"],
                         [kind |-> "dict", type |-> "complete"] >>)
    ELSE IF format_data_for_prompt_raises(data)
         THEN StreamResult("failure", calls, analysis, <<StreamErrorItem(data)>>)
         ELSE IF env.final_llm.raised
              THEN StreamResult("llm_failure", Append(calls, "final_llm"), analysis,
                                Tokens(env.stream_len) \o <<StreamErrorItem(data)>>)
              ELSE StreamResult("success", Append(calls, "final_llm"), analysis,
                                Tokens(env.stream_len)
                                \o <<StreamItem(Backfill(env.final_llm.output, data))>>)

run_agent_stream_data(env, fetched) ==
    run_agent_stream_fetched(env, fetched.analysis, fetched.data,
                             <<"parse_date_query">> \o fetched.calls)

\* the items run_agent_stream yields, in order: [kind |-> "str"], [kind |->
\* "dict"] or [kind |-> "InvestmentResponse", response |-> r]
run_agent_stream(user_message, env) ==
    run_agent_stream_data(env, fetch_relevant_data(user_message, env.analysis, env.provider))

\* every combination of environment outcomes for a request with this profile
EnvsFor(profile) ==
    [simple_qa : LLMOutcomes, analysis : Analyses, provider : Providers,
     final_llm : LLMOutcomes, profile_pick : ProfilePicks(profile),
     stream_len : StreamLengths]

\* -------------------------------------------------------------- user input
Messages ==
    { <<"What is", " ", "SIP", " ">>,
      <<"Best", " ", "funds", " ">>,
      <<"best", " ", "funds">> }

\* session ids a client sends; None stands for an absent (or empty) id
RequestSessionIds == {None, Some("s1")}

UUIDS == <<"u1", "u2", "u3", "u4", "u5", "u6">>

\* ------------------------------------------------------------- cache store
\* CacheRepository over diskcache: an entry is served while now < expire
CacheGet(store, key, now) ==
    IF key \in DOMAIN store /\ now < store[key].expire THEN Some(store[key].value) ELSE None

CacheSet(store, key, value, ttl_seconds, now) ==
    (key :> [value |-> value, expire |-> now + ttl_seconds]) @@ store

CacheDelete(store, key) == [k \in DOMAIN store \ {key} |-> store[k]]

EmptyStore == [k \in {} |-> 0]

\* ------------------------------------------------------------ Chat Service
\* md5 is taken as injective: the key is the hashed string itself
_get_response_cache_key(message, profile) ==
    <<"response_">> \o strip(lower(message))
    \o (IF profile.present
        THEN <<"_", profile.risk_tolerance, "_", profile.investment_horizon>> ELSE <<>>)

\* response.model_dump(mode="json")
model_dump(obj) == obj

_get_cached_response(cache, message, profile, now) ==
    LET cached == CacheGet(cache, _get_response_cache_key(message, profile), now)
    IN IF cached # None THEN Some(InvestmentResponse(cached[1])) ELSE None

error_indicators == {"apologize", "error processing", "encountered an error", "try rephrasing"}

_cache_response_mut_short_ttl(cache, message, response, profile, now) ==
    IF response.confidence_score # 0 /\ response.confidence_score < LOW_CONFIDENCE_THRESHOLD
    THEN cache
    ELSE IF ContainsAny(lower(response.explanation), error_indicators)
         THEN cache
         ELSE CacheSet(cache, _get_response_cache_key(message, profile), model_dump(response),
                       RESPONSE_CACHE_TTL \div 60, now)

_cache_response(cache, message, response, profile, now) ==
    IF response.confidence_score # 0 /\ response.confidence_score < LOW_CONFIDENCE_THRESHOLD
    THEN cache
    ELSE IF ContainsAny(lower(response.explanation), error_indicators)
         THEN cache
         ELSE CacheSet(cache, _get_response_cache_key(message, profile), model_dump(response),
                       RESPONSE_CACHE_TTL, now)

ConversationMessage(role, content, seq) == [role |-> role, content |-> content, seq |-> seq]

\* arrived counts the messages ever appended to the session (history variable;
\* seq is the arrival number of a message)
ConversationSession(kw) ==
    [session_id |-> kw.session_id,
     messages |-> Field(kw, "messages", <<>>),
     user_profile |-> Field(kw, "user_profile", NoProfile),
     arrived |-> Field(kw, "arrived", 0)]

_add_message_mut_keep_oldest(session, role, content) ==
    LET messages == Append(session.messages,
                           ConversationMessage(role, content, session.arrived + 1))
    IN [session EXCEPT
          !.messages = IF Len(messages) > MAX_SESSION_MESSAGES
                       THEN Prefix(messages, MAX_SESSION_MESSAGES) ELSE messages,
          !.arrived = session.arrived + 1]

_add_message(session, role, content) ==
    LET messages == Append(session.messages,
                           ConversationMessage(role, content, session.arrived + 1))
    IN [session EXCEPT
          !.messages = IF Len(messages) > MAX_SESSION_MESSAGES
                       THEN Suffix(messages, MAX_SESSION_MESSAGES) ELSE messages,
          !.arrived = session.arrived + 1]

SessionKey(session_id) == <<"session_", session_id>>

_save_session_mut_skip(store, session, now) == store

_save_session(store, session, now) ==
    CacheSet(store, SessionKey(session.session_id), model_dump(session), SESSION_TTL, now)

\* the smallest object id not in use
NewObj(heap) == CHOOSE i \in 1..(Cardinality(DOMAIN heap) + 1) :
                   /\ i \notin DOMAIN heap
                   /\ \A j \in 1..(i - 1) : j \in DOMAIN heap

\* a lookup that never finds the session in the in-memory dict
_get_or_create_session_mut_no_memory(mem, store, session_id, user_profile, now) ==
    LET obj == NewObj(mem.heap)
        cached == IF session_id # None THEN CacheGet(store, SessionKey(session_id[1]), now)
                  ELSE None
    IN IF cached # None
       THEN [mem |-> [mem EXCEPT !.sessions = (session_id[1] :> obj) @@ mem.sessions,
                                 !.heap = (obj :> ConversationSession(cached[1])) @@ mem.heap],
             obj |-> obj]
       ELSE LET new_id == IF session_id # None THEN session_id[1] ELSE UUIDS[mem.uuids + 1]
            IN [mem |-> [sessions |-> (new_id :> obj) @@ mem.sessions,
                         heap |-> (obj :> ConversationSession([session_id |-> new_id,
                                                               user_profile |-> user_profile]))
                                  @@ mem.heap,
                         uuids |-> IF session_id # None THEN mem.uuids ELSE mem.uuids + 1],
                  obj |-> obj]

\* mem = [sessions, heap, uuids]: the _sessions dict (session id -> object), the
\* session objects and the number of generated ids.  Returns [mem, obj].
_get_or_create_session(mem, store, session_id, user_profile, now) ==
    IF session_id # None /\ session_id[1] \in DOMAIN mem.sessions
    THEN [mem |-> mem, obj |-> mem.sessions[session_id[1]]]
    ELSE
    LET obj == NewObj(mem.heap)
        cached == IF session_id # None THEN CacheGet(store, SessionKey(session_id[1]), now)
                  ELSE None
    IN IF cached # None
       THEN [mem |-> [mem EXCEPT !.sessions = (session_id[1] :> obj) @@ mem.sessions,
                                 !.heap = (obj :> ConversationSession(cached[1])) @@ mem.heap],
             obj |-> obj]
       ELSE LET new_id == IF session_id # None THEN session_id[1] ELSE UUIDS[mem.uuids + 1]
            IN [mem |-> [sessions |-> (new_id :> obj) @@ mem.sessions,
                         heap |-> (obj :> ConversationSession([session_id |-> new_id,
                                                               user_profile |-> user_profile]))
                                  @@ mem.heap,
                         uuids |-> IF session_id # None THEN mem.uuids ELSE mem.uuids + 1],
                  obj |-> obj]

\* get_conversation_history: looks the session up again, then lists role/content
get_conversation_history(mem, store, session_id, now) ==
    LET got == _get_or_create_session(mem, store, Some(session_id), NoProfile, now)
    IN [mem |-> got.mem,
        history |-> [i \in DOMAIN got.mem.heap[got.obj].messages |->
                        [role |-> got.mem.heap[got.obj].messages[i].role,
                         content |-> got.mem.heap[got.obj].messages[i].content]]]

\* the environments explored at the service level: both LLM calls behave alike,
\* the analyzer answers either a data question or an off-topic one, the stock
\* provider answers with or without a change percentage
ChatLLMOutcomes ==
    { o \in LLMOutcomes : o.raised \/ ~IsBlank(o.output.explanation) }

ChatEnvs(profile) ==
    { env \in EnvsFor(profile) :
        /\ env.simple_qa = env.final_llm
        /\ env.final_llm \in ChatLLMOutcomes
        /\ \/ env.analysis.intent = "info"
           \/ ~env.analysis.is_finance_related /\ env.analysis.intent = "off_topic"
        /\ env.provider.funds = "seed" \/ env.provider.stock.kind = "ok"
        /\ env.profile_pick = CHOOSE pick \in ProfilePicks(profile) : TRUE
        /\ env.stream_len = CHOOSE n \in StreamLengths : n > 0 }

\* the messages sent at the service level: the ones that take the data path,
\* in two spellings of one question
ChatMessages == { m \in Messages : ~is_simple_query(m) }

AgentOutcomes ==
    [m \in ChatMessages, pr \in Profiles |->
       { [raised |-> o.raised, response |-> o.response, path |-> o.path] :
           o \in { run_agent(m, pr, env) : env \in ChatEnvs(pr) } }]

StreamOutcomes ==
    [m \in ChatMessages |->
       { [raised |-> o.raised, items |-> o.items, path |-> o.path] :
           o \in { run_agent_stream(m, env) : env \in ChatEnvs(NoProfile) } }]

\* the spec's condition for a cacheable response
Eligible(response) ==
    /\ response.confidence_score >= LOW_CONFIDENCE_THRESHOLD
    /\ ~ContainsAny(lower(response.explanation), error_indicators)

\* =================================================================== state
VARIABLES
    sessions,   \* ChatService._sessions: session id -> session object
    heap,       \* the session objects: object id -> ConversationSession
    uuids,      \* number of session ids generated so far
    cache,      \* the cache store: key -> [value, expire]
    clock,      \* seconds
    slot,       \* the requests in flight: position, arguments and locals
    nreq,       \* number of chat requests accepted so far
    nadmin,     \* number of clear, history and reset calls so far
    last,       \* history variable: the outcome of the call that finished last
    prior,      \* history variable: the request process_message answered last, if
                \* its answer was eligible for the cache and no reset followed
    origin,     \* history variable: per cache key, the path that wrote the entry
    agent,      \* one stand-alone call of run_agent / run_agent_stream
    util,       \* one stand-alone call of a utility function: arguments and result
    prefetch,   \* the DataPrefetchService singleton, its run_prefetch_cycle tasks
                \* and the mutual fund service they call
    profiles    \* routes/profile.py: _profiles, user id -> UserProfile, and the
                \* outcome of the profile call that finished last

vars ==
    <<sessions, heap, uuids, cache, clock, slot, nreq, nadmin, last, prior, origin, agent, util,
      prefetch, profiles>>

Procs == {"p1", "p2"}

IdleSlot ==
    [pc |-> "idle", message |-> <<>>, profile |-> NoProfile, session |-> 0,
     session_id |-> "", history |-> <<>>, due |-> FALSE, due_explanation |-> <<>>]

NoCall ==
    [n |-> 0, op |-> "none", message |-> <<>>, profile |-> NoProfile, session_id |-> "",
     cached |-> FALSE, raised |-> FALSE, returned |-> FALSE, response |-> NoResponse,
     path |-> "none", invoked |-> FALSE, due |-> FALSE, due_explanation |-> <<>>,
     events |-> <<>>]

AgentIdle == [phase |-> "off"]

UtilIdle == [fn |-> "none"]

\* the prefetch service and the profile routes take no part
PrefetchOff == [phase |-> "off"]

ProfilesOff == [phase |-> "off"]

\* a session persisted by an earlier run of the process: n messages, the
\* in-memory dict is empty after the restart
RECURSIVE PastMessages(_)
PastMessages(n) ==
    IF n = 0 THEN <<>>
    ELSE Append(PastMessages(n - 1),
                ConversationMessage(IF n % 2 = 1 THEN "user" ELSE "assistant",
                                    IF n % 2 = 1 THEN <<"earlier question">>
                                    ELSE <<"earlier answer">>, n))

PersistedLengths == {49}

InitCache(n) ==
    IF n = 0 THEN EmptyStore
    ELSE SessionKey("s1") :>
           [value |-> model_dump(ConversationSession([session_id |-> "s1",
                                                      messages |-> PastMessages(n),
                                                      arrived |-> n])),
            expire |-> SESSION_TTL]

\* the chat service after construction, no request in flight
ChatIdle ==
    /\ sessions = EmptyStore
    /\ heap = EmptyStore
    /\ uuids = 0
    /\ clock = 0
    /\ slot = [p \in Procs |-> IdleSlot]
    /\ nreq = 0
    /\ nadmin = 0
    /\ last = NoCall
    /\ prior = None
    /\ origin = EmptyStore

ChatInit ==
    /\ ChatIdle
    /\ prefetch = PrefetchOff
    /\ profiles = ProfilesOff

Init ==
    /\ ChatInit
    /\ \E n \in PersistedLengths : cache = InitCache(n)
    /\ agent = AgentIdle
    /\ util = UtilIdle

\* Python keeps an object alive while the dict or a running request refers to it
Collect(h, sess, slots) ==
    [o \in { o2 \in DOMAIN h :
               \/ \E id \in DOMAIN sess : sess[id] = o2
               \/ \E p \in Procs : slots[p].pc # "idle" /\ slots[p].session = o2 } |-> h[o]]

Mem == [sessions |-> sessions, heap |-> heap, uuids |-> uuids]

\* the request is identical to the one answered just before it, that answer was
\* eligible for the cache, and the cache's time to live has not passed since
Due(message, profile) ==
    /\ prior # None
    /\ prior[1].message = message
    /\ prior[1].profile = profile
    /\ clock < prior[1].at + RESPONSE_CACHE_TTL

Without(f, key) == [k \in DOMAIN f \ {key} |-> f[k]]

\* a request is served by the first free worker
FreeSlot(p) ==
    /\ slot[p].pc = "idle"
    /\ p = "p2" => slot["p1"].pc # "idle"

\* ----------------------------------------------------------- process_message
\* the call up to its return on a cache hit, or up to the await of the runner
ProcessMessageStart(p, message, session_id, user_profile) ==
    /\ FreeSlot(p)
    /\ nreq < MaxRequests
    /\ nreq' = nreq + 1
    /\ LET cached_response == _get_cached_response(cache, message, user_profile, clock)
           got == _get_or_create_session(Mem, cache, session_id, user_profile, clock)
           sid == got.mem.heap[got.obj].session_id
       IN IF cached_response # None
          THEN LET s1 == _add_message(got.mem.heap[got.obj], "user", message)
                   s2 == _add_message(s1, "assistant", cached_response[1].explanation)
               IN /\ sessions' = got.mem.sessions
                  /\ heap' = Collect([got.mem.heap EXCEPT ![got.obj] = s2], got.mem.sessions, slot)
                  /\ uuids' = got.mem.uuids
                  /\ cache' = _save_session(cache, s2, clock)
                  /\ last' = [n |-> last.n + 1, op |-> "process_message", message |-> message,
                              profile |-> user_profile, session_id |-> sid,
                              cached |-> TRUE, raised |-> FALSE, returned |-> TRUE,
                              response |-> cached_response[1], path |-> "hit",
                              invoked |-> FALSE, due |-> Due(message, user_profile),
                              due_explanation |-> IF Due(message, user_profile)
                                                  THEN prior[1].explanation ELSE <<>>,
                              events |-> <<>>]
                  /\ prior' = IF Due(message, user_profile) THEN prior ELSE None
                  /\ UNCHANGED <<slot, origin>>
          ELSE LET s1 == _add_message(got.mem.heap[got.obj], "user", message)
                   mem1 == [got.mem EXCEPT !.heap[got.obj] = s1]
                   hist == get_conversation_history(mem1, cache, sid, clock)
                   slot1 == [slot EXCEPT ![p] =
                               [pc |-> "await", message |-> message, profile |-> user_profile,
                                session |-> got.obj, session_id |-> sid,
                                history |-> hist.history, due |-> Due(message, user_profile),
                                due_explanation |-> IF Due(message, user_profile)
                                                    THEN prior[1].explanation ELSE <<>>]]
               IN /\ sessions' = hist.mem.sessions
                  /\ slot' = slot1
                  /\ heap' = Collect(hist.mem.heap, hist.mem.sessions, slot1)
                  /\ uuids' = hist.mem.uuids
                  /\ UNCHANGED <<cache, last, prior, origin>>
    /\ UNCHANGED <<clock, nadmin, agent, util, prefetch, profiles>>

\* the runner returns: the rest of process_message, or its except branch
ProcessMessageFinish(p) ==
    /\ slot[p].pc = "await"
    /\ \E out \in AgentOutcomes[slot[p].message, slot[p].profile] :
         LET key == _get_response_cache_key(slot[p].message, slot[p].profile)
             slot1 == [slot EXCEPT ![p] = IdleSlot]
             call == [n |-> last.n + 1, op |-> "process_message",
                      message |-> slot[p].message, profile |-> slot[p].profile,
                      session_id |-> slot[p].session_id, cached |-> FALSE,
                      raised |-> out.raised, returned |-> ~out.raised,
                      response |-> out.response, path |-> out.path, invoked |-> TRUE,
                      due |-> slot[p].due, due_explanation |-> slot[p].due_explanation,
                      events |-> <<>>]
         IN IF out.raised
            THEN /\ slot' = slot1
                 /\ heap' = Collect(heap, sessions, slot1)
                 /\ last' = call
                 /\ prior' = None
                 /\ UNCHANGED <<cache, origin>>
            ELSE LET s2 == _add_message(heap[slot[p].session], "assistant",
                                        out.response.explanation)
                     cache1 == _save_session(cache, s2, clock)
                     cache2 == _cache_response(cache1, slot[p].message, out.response,
                                               slot[p].profile, clock)
                 IN /\ slot' = slot1
                    /\ heap' = Collect([heap EXCEPT ![slot[p].session] = s2], sessions, slot1)
                    /\ cache' = cache2
                    /\ last' = call
                    /\ prior' = IF Eligible(out.response)
                                THEN Some([message |-> slot[p].message,
                                           profile |-> slot[p].profile,
                                           explanation |-> out.response.explanation,
                                           at |-> clock])
                                ELSE None
                    /\ origin' = IF _cache_response(EmptyStore, slot[p].message, out.response,
                                                     slot[p].profile, clock) # EmptyStore
                                 THEN (key :> out.path) @@ origin ELSE origin
    /\ UNCHANGED <<sessions, uuids, clock, nreq, nadmin, agent, util, prefetch, profiles>>

\* ---------------------------------------------------- process_message_stream
\* the body of "async for chunk in agent_stream_runner(...)": st = [session,
\* cache, events, response]; a chunk that is neither a str nor an
\* InvestmentResponse matches no branch
RECURSIVE ConsumeStream(_, _, _)
ConsumeStream(st, items, now) ==
    IF items = <<>> THEN st
    ELSE LET chunk == Head(items)
         IN ConsumeStream(
              CASE chunk.kind = "str" ->
                     [st EXCEPT !.events = Append(st.events, "token")]
                [] chunk.kind = "InvestmentResponse" ->
                     LET s2 == _add_message(st.session, "assistant", chunk.response.explanation)
                     IN [session |-> s2,
                         cache |-> _save_session(st.cache, s2, now),
                         events |-> Append(st.events, "complete"),
                         response |-> Some(chunk.response)]
                [] OTHER -> st,
              Tail(items), now)

\* the call up to the first await of the stream runner
StreamStart(p, message, session_id) ==
    /\ FreeSlot(p)
    /\ nreq < MaxRequests
    /\ nreq' = nreq + 1
    /\ LET got == _get_or_create_session(Mem, cache, session_id, NoProfile, clock)
           sid == got.mem.heap[got.obj].session_id
           s1 == _add_message(got.mem.heap[got.obj], "user", message)
           mem1 == [got.mem EXCEPT !.heap[got.obj] = s1]
           hist == get_conversation_history(mem1, cache, sid, clock)
           slot1 == [slot EXCEPT ![p] =
                       [pc |-> "stream", message |-> message, profile |-> NoProfile,
                        session |-> got.obj, session_id |-> sid, history |-> hist.history,
                        due |-> FALSE, due_explanation |-> <<>>]]
       IN /\ sessions' = hist.mem.sessions
          /\ slot' = slot1
          /\ heap' = Collect(hist.mem.heap, hist.mem.sessions, slot1)
          /\ uuids' = hist.mem.uuids
    /\ UNCHANGED <<cache, clock, nadmin, last, prior, origin, agent, util, prefetch, profiles>>

\* the stream is consumed to its end (the session changes only at the chunk
\* that is an InvestmentResponse)
StreamFinish(p) ==
    /\ slot[p].pc = "stream"
    /\ \E out \in StreamOutcomes[slot[p].message] :
         LET st == ConsumeStream([session |-> heap[slot[p].session], cache |-> cache,
                                  events |-> <<>>, response |-> None], out.items, clock)
             slot1 == [slot EXCEPT ![p] = IdleSlot]
         IN /\ slot' = slot1
            /\ heap' = Collect([heap EXCEPT ![slot[p].session] = st.session], sessions, slot1)
            /\ cache' = st.cache
            /\ last' = [n |-> last.n + 1, op |-> "process_message_stream",
                        message |-> slot[p].message, profile |-> NoProfile,
                        session_id |-> slot[p].session_id, cached |-> FALSE,
                        raised |-> out.raised, returned |-> st.response # None,
                        response |-> IF st.response # None THEN st.response[1] ELSE NoResponse,
                        path |-> out.path, invoked |-> TRUE, due |-> FALSE,
                        due_explanation |-> <<>>,
                        events |-> IF out.raised THEN Append(st.events, "error")
                                   ELSE st.events]
    /\ UNCHANGED <<sessions, uuids, clock, nreq, nadmin, prior, origin, agent, util,
                   prefetch, profiles>>

\* --------------------------------------------------------- other operations
\* DELETE /chat/session/{id}
ClearSession(session_id) ==
    /\ nadmin < MaxAdminCalls
    /\ nadmin' = nadmin + 1
    /\ sessions' = Without(sessions, session_id)
    /\ heap' = Collect(heap, Without(sessions, session_id), slot)
    /\ cache' = CacheDelete(cache, SessionKey(session_id))
    /\ UNCHANGED <<uuids, clock, slot, nreq, last, prior, origin, agent, util, prefetch, profiles>>

\* GET /chat/session/{id}/history
GetSessionHistory(session_id) ==
    /\ nadmin < MaxAdminCalls
    /\ nadmin' = nadmin + 1
    /\ LET hist == get_conversation_history(Mem, cache, session_id, clock)
       IN /\ sessions' = hist.mem.sessions
          /\ heap' = hist.mem.heap
          /\ uuids' = hist.mem.uuids
    /\ UNCHANGED <<cache, clock, slot, nreq, last, prior, origin, agent, util, prefetch, profiles>>

\* POST /reset: CacheRepository.clear()
ResetApplication ==
    /\ nadmin < MaxAdminCalls
    /\ nadmin' = nadmin + 1
    /\ cache' = EmptyStore
    /\ prior' = None
    /\ origin' = EmptyStore
    /\ UNCHANGED <<sessions, heap, uuids, clock, slot, nreq, last, agent, util, prefetch, profiles>>

Tick ==
    /\ clock < MaxTicks * TickStep
    /\ clock' = clock + TickStep
    /\ UNCHANGED <<sessions, heap, uuids, cache, slot, nreq, nadmin, last, prior, origin, agent, util,
                   prefetch, profiles>>

Next ==
    \/ \E p \in Procs, m \in ChatMessages, sid \in RequestSessionIds, pr \in Profiles :
          ProcessMessageStart(p, m, sid, pr)
    \/ \E p \in Procs : ProcessMessageFinish(p)
    \/ \E p \in Procs, m \in ChatMessages, sid \in RequestSessionIds : StreamStart(p, m, sid)
    \/ \E p \in Procs : StreamFinish(p)
    \/ ClearSession("s1")
    \/ GetSessionHistory("s1")
    \/ ResetApplication
    \/ Tick

Spec == Init /\ [][Next]_vars

\* ------------------------------------------- run_agent as a function of its
\* inputs: Init draws the message, the profile and the environment's outcomes
AgentInit ==
    /\ ChatInit
    /\ cache = EmptyStore
    /\ util = UtilIdle
    /\ \E m \in Messages, pr \in Profiles :
         \E env \in EnvsFor(pr) :
            agent = [phase |-> "called", message |-> m, profile |-> pr, env |-> env]

RunAgent ==
    /\ agent.phase = "called"
    /\ agent' = [phase |-> "returned", message |-> agent.message, profile |-> agent.profile,
                 env |-> agent.env,
                 out |-> run_agent(agent.message, agent.profile, agent.env)]
    /\ UNCHANGED <<sessions, heap, uuids, cache, clock, slot, nreq, nadmin, last, prior, origin, util,
                   prefetch, profiles>>

RunAgentStream ==
    /\ agent.phase = "called"
    /\ ~agent.profile.present
    /\ agent' = [phase |-> "streamed", message |-> agent.message, profile |-> agent.profile,
                 env |-> agent.env,
                 out |-> run_agent_stream(agent.message, agent.env)]
    /\ UNCHANGED <<sessions, heap, uuids, cache, clock, slot, nreq, nadmin, last, prior, origin, util,
                   prefetch, profiles>>

AgentNext == RunAgent \/ RunAgentStream

SpecAgent == AgentInit /\ [][AgentNext]_vars

\* ======================================= Date Resolver (utils/date_parser.py)
\* A datetime is a number of hours since 0001-01-01 00:00 (proleptic Gregorian
\* calendar, as Python's datetime).  A query is a sequence of words of letters
\* and digits separated by single blanks; the regular expressions are matched
\* on the words.

\* datetime(year, month, day): ValueError for a date that does not exist
datetime(year, month, day) ==
    LET IsLeap == year % 4 = 0 /\ (year % 100 # 0 \/ year % 400 = 0)
        DaysInMonth(m) ==
            IF m = 2 THEN (IF IsLeap THEN 29 ELSE 28)
            ELSE IF m \in {4, 6, 9, 11} THEN 30 ELSE 31
        RECURSIVE DaysBeforeMonth(_)
        DaysBeforeMonth(m) ==
            IF m <= 1 THEN 0 ELSE DaysBeforeMonth(m - 1) + DaysInMonth(m - 1)
        p == year - 1
        ordinal == 365 * p + (p \div 4) - (p \div 100) + (p \div 400)
                      + DaysBeforeMonth(month) + day
    IN  IF year \in 1..9999 /\ month \in 1..12 /\ day \in 1..DaysInMonth(month)
        THEN [raised |-> FALSE, t |-> ordinal * 24]
        ELSE [raised |-> TRUE, t |-> 0]

\* get_current_date(): the wall clock, with its year, month and day fields
Nows ==
    { [year |-> 2026, month |-> 11, day |-> 3, hour |-> 12],
      [year |-> 2024, month |-> 2, day |-> 29, hour |-> 0] }

NowOf(today) == datetime(today.year, today.month, today.day).t + today.hour

\* timedelta(days = n)
timedelta(days) == days * 24

\* the dataclass; rule is a history field: the block of the parser that
\* built the range (0 for the LLM strategy)
DateRange(start_date, end_date, period_label, rule) ==
    [start_date |-> start_date, end_date |-> end_date,
     period_label |-> period_label, rule |-> rule]

\* DateRange.days: timedelta.days is the floor of the difference
DateRangeDays(date_range) == (date_range.end_date - date_range.start_date) \div 24

MONTH_MAP ==
    [w \in {"march", "mar", "april", "december", "dec"} |->
        CASE w \in {"march", "mar"} -> 3
          [] w = "april" -> 4
          [] OTHER -> 12]

\* int() of the words made of digits only
IntOf == ("25" :> 25) @@ ("2024" :> 2024) @@ ("2025" :> 2025) @@ ("2030" :> 2030)

\* the words matching 20\d{2} as a whole
YearWords == { w \in DOMAIN IntOf : IntOf[w] \in 2000..2099 }

\* the words starting with year|month|week|day, and the unit the group captures
UnitOf ==
    [w \in {"year", "years", "months", "weeks", "days"} |->
        CASE w \in {"year", "years"} -> "year"
          [] w = "months" -> "month"
          [] w = "weeks" -> "week"
          [] OTHER -> "day"]

RelativeWords == {"last", "past", "previous"}

DateReturn(value) == [raised |-> FALSE, value |-> value]

DateRaise == [raised |-> TRUE, value |-> None]

\* the index of the leftmost match, 0 for no match
FirstMatch(n, P(_)) ==
    LET S == { i \in 1..n : P(i) }
    IN  IF S = {} THEN 0 ELSE CHOOSE i \in S : \A j \in S : i <= j

\* today - timedelta(...): OverflowError below year 1
parse_relative(num, unit, now) ==
    LET back == IF unit = "year" THEN timedelta(num * 365)
                ELSE IF unit = "month" THEN timedelta(num * 30)
                ELSE IF unit = "week" THEN timedelta(num * 7)
                ELSE timedelta(num)
        label == [text |-> "Last", num |-> num, unit |-> unit, plural |-> num > 1]
    IN  IF now - back < timedelta(1) THEN DateRaise
        ELSE DateReturn(Some(DateRange(now - back, now, label, 1)))

\* the blocks of parse_date_query_regex after the year-range block
parse_date_query_regex_tail(W(_), n, today, now) ==
    LET month_range ==
            FirstMatch(n, LAMBDA i : i + 4 <= n /\ W(i + 1) \in YearWords /\ W(i + 2) = "to"
                                     /\ W(i + 4) \in YearWords)
        start_month == IF W(month_range) \in DOMAIN MONTH_MAP THEN MONTH_MAP[W(month_range)] ELSE 0
        end_month ==
            IF W(month_range + 3) \in DOMAIN MONTH_MAP THEN MONTH_MAP[W(month_range + 3)] ELSE 0
        since == FirstMatch(n, LAMBDA i : i + 2 <= n /\ W(i) \in {"since", "from"}
                                          /\ W(i + 2) \in YearWords)
        since_year == FirstMatch(n, LAMBDA i : W(i) \in {"since", "from"} /\ W(i + 1) \in YearWords)
        in_year == FirstMatch(n, LAMBDA i : W(i) = "in" /\ W(i + 1) \in YearWords)
    IN  IF month_range # 0 /\ start_month # 0 /\ end_month # 0 THEN
            LET start_year == IntOf[W(month_range + 1)]
                end_year == IntOf[W(month_range + 4)]
                start == datetime(start_year, start_month, 1).t
                end0 == IF end_month = 12 THEN datetime(end_year, 12, 31).t
                        ELSE datetime(end_year, end_month + 1, 1).t - timedelta(1)
                end == IF end0 > now THEN now ELSE end0
            IN  DateReturn(Some(DateRange(start, end,
                     [text |-> "to", from |-> <<W(month_range), start_year>>,
                      until |-> <<W(month_range + 3), end_year>>], 5)))
        ELSE IF since # 0 /\ W(since + 1) \in DOMAIN MONTH_MAP THEN
            LET year == IntOf[W(since + 2)]
            IN  DateReturn(Some(DateRange(datetime(year, MONTH_MAP[W(since + 1)], 1).t, now,
                     [text |-> "Since", month |-> W(since + 1), year |-> year], 6)))
        ELSE IF since_year # 0 THEN
            LET year == IntOf[W(since_year + 1)]
            IN  DateReturn(Some(DateRange(datetime(year, 1, 1).t, now,
                     [text |-> "Since", year |-> year], 7)))
        ELSE IF in_year # 0 THEN
            LET year == IntOf[W(in_year + 1)]
                end0 == datetime(year, 12, 31).t
            IN  DateReturn(Some(DateRange(datetime(year, 1, 1).t,
                     IF end0 > now THEN now ELSE end0, [text |-> "Year", year |-> year], 8)))
        ELSE DateReturn(None)

parse_date_query_regex(query, today) ==
    LET query_lower == lower(query)
        n == Len(query_lower)
        W(i) == IF i \in 1..n THEN query_lower[i] ELSE ""
        now == NowOf(today)
        relative ==
            FirstMatch(n, LAMBDA i : W(i) \in RelativeWords /\ W(i + 1) \in DOMAIN IntOf
                                     /\ W(i + 2) \in DOMAIN UnitOf)
        year_range ==
            FirstMatch(n, LAMBDA i : W(i) \in YearWords /\ W(i + 1) = "to"
                                     /\ W(i + 2) \in YearWords \cup {"25"})
    IN  IF relative # 0 THEN
            parse_relative(IntOf[W(relative + 1)], UnitOf[W(relative + 2)], now)
        ELSE IF \E i \in 1..n : W(i) \in RelativeWords /\ W(i + 1) = "year" THEN
            DateReturn(Some(DateRange(now - timedelta(365), now,
                                      [text |-> "Last 1 year"], 2)))
        ELSE IF \E i \in 1..n : W(i) = "this" /\ W(i + 1) = "year" THEN
            DateReturn(Some(DateRange(datetime(today.year, 1, 1).t, now,
                                      [text |-> "Year (YTD)", year |-> today.year], 2)))
        ELSE IF \E i \in 1..n : \/ W(i) = "ytd"
                                \/ W(i) = "year" /\ W(i + 1) = "to" /\ W(i + 2) = "date" THEN
            DateReturn(Some(DateRange(datetime(today.year, 1, 1).t, now,
                                      [text |-> "Year to Date", year |-> today.year], 3)))
        ELSE IF year_range # 0 THEN
            LET start_year == IntOf[W(year_range)]
                end_year_str == W(year_range + 2)
                end_year == IF end_year_str \in YearWords THEN IntOf[end_year_str]
                            ELSE 2000 + IntOf[end_year_str]
                end0 == datetime(end_year, 12, 31).t
            IN  DateReturn(Some(DateRange(datetime(start_year, 1, 1).t,
                     IF end0 > now THEN now ELSE end0,
                     [text |-> "-", from |-> start_year, until |-> end_year], 4)))
        ELSE parse_date_query_regex_tail(W, n, today, now)

\* the arguments of the extract_date_range tool call; a key the model left
\* out is None
DateArgs ==
    [has_date_reference : {None, Some(FALSE), Some(TRUE)},
     start_year : {None, Some(2024), Some(2027)},
     start_month : {None, Some(2), Some(13)},
     start_day : {None, Some(30)},
     end_year : {None, Some(2023), Some(2030)},
     end_month : {None, Some(12)},
     end_day : {None, Some(31)},
     period_label : {None, Some("Since 2024")}]

NoDateArgs ==
    [has_date_reference |-> None, start_year |-> None, start_month |-> None,
     start_day |-> None, end_year |-> None, end_month |-> None, end_day |-> None,
     period_label |-> None]

\* the outcomes of the Groq call: an exception, a reply without a tool call,
\* a tool call with arguments
DateLLMOutcomes ==
    { [kind |-> "raise", args |-> NoDateArgs], [kind |-> "no_tool_calls", args |-> NoDateArgs] }
    \cup { [kind |-> "tool_call", args |-> a] : a \in DateArgs }

parse_date_query_llm(query, today, llm) ==
    LET args == llm.args
        now == NowOf(today)
        start0 == datetime(OrElse(args.start_year, today.year), OrElse(args.start_month, 1),
                           OrElse(args.start_day, 1))
        end0 == datetime(OrElse(args.end_year, today.year), OrElse(args.end_month, today.month),
                         OrElse(args.end_day, today.day))
        end1 == IF end0.t > now THEN now ELSE end0.t
        start_date == IF start0.t > end1 THEN end1 ELSE start0.t
        end_date == IF start0.t > end1 THEN start0.t ELSE end1
        period_label == OrElse(args.period_label, [text |-> "to", from |-> start_date,
                                                until |-> end_date])
    IN  IF llm.kind = "raise" THEN parse_date_query_regex(query, today)
        ELSE IF llm.kind = "no_tool_calls" THEN DateReturn(None)
        ELSE IF ~OrElse(args.has_date_reference, FALSE) THEN DateReturn(None)
        ELSE IF start0.raised \/ end0.raised THEN DateReturn(None)
        ELSE DateReturn(Some(DateRange(start_date, end_date, period_label, 0)))

get_period_key_for_range(date_range) ==
    LET days == DateRangeDays(date_range)
    IN  IF days <= 45 THEN "1m"
        ELSE IF days <= 100 THEN "3m"
        ELSE IF days <= 200 THEN "6m"
        ELSE IF days <= 550 THEN "1y"
        ELSE IF days <= 1400 THEN "3y"
        ELSE "5y"

\* ---- the queries
DateWords ==
    {"Last", "last", "this", "year", "years", "months", "25", "ytd", "2024", "2030",
     "to", "since", "in", "march", "december", "foo", "5y"}

MonthRangeQueries ==
    { pre \o <<m1, y1, "to", m2, y2>> :
        pre \in {<<>>, <<"since">>}, m1 \in {"march", "foo"}, m2 \in {"december", "april"},
        y1 \in {"2024", "2030"}, y2 \in {"2024", "2030"} }

DateQueries == UNION { [1..k -> DateWords] : k \in 0..MaxQueryWords } \cup MonthRangeQueries

\* ---- parse_date_query_async / parse_date_query_regex as functions of the
\* query, the clock and the LLM's outcome
DateInit ==
    /\ ChatInit
    /\ cache = EmptyStore
    /\ agent = AgentIdle
    /\ \E q \in DateQueries, t \in Nows, o \in DateLLMOutcomes :
          /\ o.kind = "tool_call" => q = <<"in", "2024">>
          /\ util = [fn |-> "date", phase |-> "called", query |-> q, today |-> t, llm |-> o]

ParseDateQueryAsync ==
    /\ util.fn = "date" /\ util.phase = "called"
    /\ util' = [util EXCEPT !.phase = "returned"] @@
               [by |-> "llm", out |-> parse_date_query_llm(util.query, util.today, util.llm)]
    /\ UNCHANGED <<sessions, heap, uuids, cache, clock, slot, nreq, nadmin, last, prior, origin, agent,
                   prefetch, profiles>>

ParseDateQueryRegex ==
    /\ util.fn = "date" /\ util.phase = "called"
    /\ util.llm.kind = "raise"
    /\ util' = [util EXCEPT !.phase = "returned"] @@
               [by |-> "regex", out |-> parse_date_query_regex(util.query, util.today)]
    /\ UNCHANGED <<sessions, heap, uuids, cache, clock, slot, nreq, nadmin, last, prior, origin, agent,
                   prefetch, profiles>>

DateNext == ParseDateQueryAsync \/ ParseDateQueryRegex

SpecDate == DateInit /\ [][DateNext]_vars

\* the generic period tokens of the rule list
SuffixTokens == {"1y", "3y", "5y", "6m"}

\* ================== research_mutual_fund / search_funds_by_category as
\* functions of the query, the limit and the live service's outcome
FundServiceOutcomes == {"raise", "empty", "live"}

FundLimits == {0, 5, 10}

FundsInit ==
    /\ ChatInit
    /\ cache = EmptyStore
    /\ agent = AgentIdle
    /\ \E q \in FundQueries, o \in FundServiceOutcomes, n \in FundLimits :
          util = [fn |-> "funds", phase |-> "called", query |-> q,
                  prov |-> [funds |-> o, seed |-> FallbackAnswers], limit |-> n]

SearchFundsByCategory ==
    /\ util.fn = "funds" /\ util.phase = "called"
    /\ util' = [util EXCEPT !.phase = "returned"] @@
               [by |-> "search_funds_by_category",
                out |-> search_funds_by_category(util.prov, util.query, util.limit)]
    /\ UNCHANGED <<sessions, heap, uuids, cache, clock, slot, nreq, nadmin, last, prior, origin, agent,
                   prefetch, profiles>>

ResearchMutualFund ==
    /\ util.fn = "funds" /\ util.phase = "called"
    /\ util' = [util EXCEPT !.phase = "returned"] @@
               [by |-> "research_mutual_fund",
                out |-> research_mutual_fund(util.prov, util.query)]
    /\ UNCHANGED <<sessions, heap, uuids, cache, clock, slot, nreq, nadmin, last, prior, origin, agent,
                   prefetch, profiles>>

FundsNext == SearchFundsByCategory \/ ResearchMutualFund

SpecFunds == FundsInit /\ [][FundsNext]_vars

\* ============================= POST /funds/compare (api/routes/funds.py)
SchemeCodes == {"119598", "000000"}

\* what the repository answers for a scheme code
RepoOutcomes == [SchemeCodes -> {"found", "missing", "raise"}]

\* MutualFundService.compare_funds: one get_scheme_details per code, in order,
\* up to the first one that raises
RECURSIVE service_compare_funds(_, _, _)
service_compare_funds(scheme_codes, repo, acc) ==
    IF scheme_codes = <<>> THEN acc
    ELSE LET code == Head(scheme_codes)
             seen == [acc EXCEPT !.lookups = Append(@, code)]
         IN  IF repo[code] = "raise" THEN [seen EXCEPT !.raised = TRUE]
             ELSE service_compare_funds(
                      Tail(scheme_codes), repo,
                      IF repo[code] = "found"
                      THEN [seen EXCEPT !.comparison = Append(@, code)]
                      ELSE seen)

compare_funds_mut_no_maximum(scheme_codes, repo) ==
    LET result == service_compare_funds(scheme_codes, repo,
                                        [raised |-> FALSE, comparison |-> <<>>, lookups |-> <<>>])
    IN  IF Len(scheme_codes) < 2
        THEN [status |-> 400, detail |-> "At least 2 scheme codes required for comparison",
              funds |-> <<>>, total |-> 0, lookups |-> <<>>]
        ELSE IF result.raised
        THEN [status |-> 500, detail |-> "Error comparing funds",
              funds |-> <<>>, total |-> 0, lookups |-> result.lookups]
        ELSE [status |-> 200, detail |-> "", funds |-> result.comparison,
              total |-> Len(result.comparison), lookups |-> result.lookups]

compare_funds(scheme_codes, repo) ==
    LET result == service_compare_funds(scheme_codes, repo,
                                        [raised |-> FALSE, comparison |-> <<>>, lookups |-> <<>>])
    IN  IF Len(scheme_codes) < 2
        THEN [status |-> 400, detail |-> "At least 2 scheme codes required for comparison",
              funds |-> <<>>, total |-> 0, lookups |-> <<>>]
        ELSE IF Len(scheme_codes) > 5
        THEN [status |-> 400, detail |-> "Maximum 5 funds can be compared at once",
              funds |-> <<>>, total |-> 0, lookups |-> <<>>]
        ELSE IF result.raised
        THEN [status |-> 500, detail |-> "Error comparing funds",
              funds |-> <<>>, total |-> 0, lookups |-> result.lookups]
        ELSE [status |-> 200, detail |-> "", funds |-> result.comparison,
              total |-> Len(result.comparison), lookups |-> result.lookups]

CompareInit ==
    /\ ChatInit
    /\ cache = EmptyStore
    /\ agent = AgentIdle
    /\ \E n \in 0..MaxSchemeCodes : \E codes \in [1..n -> SchemeCodes], repo \in RepoOutcomes :
          util = [fn |-> "compare", phase |-> "called", scheme_codes |-> codes, repo |-> repo]

CompareFunds ==
    /\ util.fn = "compare" /\ util.phase = "called"
    /\ util' = [util EXCEPT !.phase = "returned"] @@
               [out |-> compare_funds(util.scheme_codes, util.repo)]
    /\ UNCHANGED <<sessions, heap, uuids, cache, clock, slot, nreq, nadmin, last, prior, origin, agent,
                   prefetch, profiles>>

CompareNext == CompareFunds

SpecCompare == CompareInit /\ [][CompareNext]_vars

\* ================================== Calculations (utils/calculations.py)
\* A float is zero, plus or minus a power of ten (sign, exp), or +inf.  A
\* quotient beyond the float range is inf; a power of finite operands beyond
\* the range raises OverflowError.
MAX_10_EXP == 308

Float(sign, exp) == [kind |-> "number", sign |-> sign, exp |-> IF sign = 0 THEN 0 ELSE exp]

Inf == [kind |-> "inf", sign |-> 1, exp |-> 0]

CalcNone == [kind |-> "none", sign |-> 0, exp |-> 0]

CalcRaise == [kind |-> "raise", sign |-> 0, exp |-> 0]

RECURSIVE Pow10(_)
Pow10(n) == IF n = 0 THEN 1 ELSE 10 * Pow10(n - 1)

\* a / b for a > 0 and b > 0
FloatDiv(a, b) ==
    IF a.kind = "inf" THEN Inf
    ELSE IF a.exp - b.exp > MAX_10_EXP THEN Inf
    ELSE Float(1, a.exp - b.exp)

\* a ** (1 / years) for a > 0 and years > 0
FloatRoot(a, years) ==
    LET exp == IF years.exp <= 0 THEN a.exp * Pow10(0 - years.exp)
               ELSE a.exp \div Pow10(years.exp)
    IN  IF a.kind = "inf" THEN Inf
        ELSE IF exp > MAX_10_EXP THEN CalcRaise
        ELSE Float(1, exp)

\* round((x - 1) * 100, 2) for x > 0
PercentOver(x) ==
    IF x.kind # "number" THEN x
    ELSE IF x.exp > 0 THEN (IF x.exp + 2 > MAX_10_EXP THEN Inf ELSE Float(1, x.exp + 2))
    ELSE IF x.exp = 0 THEN Float(0, 0)
    ELSE Float(-1, 2)

calculate_cagr(beginning_value, ending_value, years) ==
    IF beginning_value.sign <= 0 \/ ending_value.sign <= 0 \/ years.sign <= 0 THEN CalcNone
    ELSE PercentOver(FloatRoot(FloatDiv(ending_value, beginning_value), years))

calculate_absolute_return(beginning_value, ending_value) ==
    IF beginning_value.sign <= 0 THEN CalcNone
    ELSE IF ending_value = beginning_value THEN Float(0, 0)
    ELSE IF ending_value.sign = 1 /\ ending_value.exp > beginning_value.exp
         THEN PercentOver(FloatDiv(ending_value, beginning_value))
    ELSE Float(-1, 2)

Floats == { Float(s, e) : s \in {-1, 0, 1}, e \in (0 - MaxDecade)..MaxDecade }

CalcInit ==
    /\ ChatInit
    /\ cache = EmptyStore
    /\ agent = AgentIdle
    /\ \E b \in Floats, e \in Floats, y \in Floats :
          util = [fn |-> "calc", phase |-> "called", beginning_value |-> b,
                  ending_value |-> e, years |-> y]

CalculateCagr ==
    /\ util.fn = "calc" /\ util.phase = "called"
    /\ util' = [util EXCEPT !.phase = "returned"] @@
               [by |-> "calculate_cagr",
                out |-> calculate_cagr(util.beginning_value, util.ending_value, util.years)]
    /\ UNCHANGED <<sessions, heap, uuids, cache, clock, slot, nreq, nadmin, last, prior, origin, agent,
                   prefetch, profiles>>

CalculateAbsoluteReturn ==
    /\ util.fn = "calc" /\ util.phase = "called"
    /\ util' = [util EXCEPT !.phase = "returned"] @@
               [by |-> "calculate_absolute_return",
                out |-> calculate_absolute_return(util.beginning_value, util.ending_value)]
    /\ UNCHANGED <<sessions, heap, uuids, cache, clock, slot, nreq, nadmin, last, prior, origin, agent,
                   prefetch, profiles>>

CalcNext == CalculateCagr \/ CalculateAbsoluteReturn

SpecCalc == CalcInit /\ [][CalcNext]_vars

\* ================= fetch_relevant_data as a function of the analyzer's
\* output and the providers' answers
FetchNames == {"sbi bluechip", "mid cap", "index"}

FetchCategories == {"large cap", "elss"}

\* search terms: one that a fund name repeats, one whose seed answer shares a
\* scheme code with the answer for "sbi bluechip"
FetchTerms == {"elss", "index"}

Lists(S, n) == UNION { [1..k -> S] : k \in 0..n }

FetchAnalyses ==
    { QueryAnalysis([is_finance_related |-> TRUE, intent |-> intent, fund_names |-> names,
                     fund_categories |-> cats, stock_symbols |-> symbols,
                     needs_market_data |-> market, search_terms |-> terms]) :
        intent \in {"info", "recommend"}, names \in Lists(FetchNames, MaxNames),
        cats \in Lists(FetchCategories, MaxCategories),
        symbols \in Lists({"RELIANCE"}, MaxSymbols), market \in BOOLEAN,
        terms \in Lists(FetchTerms, 1) }

FetchInit ==
    /\ ChatInit
    /\ cache = EmptyStore
    /\ agent = AgentIdle
    /\ \E analysis \in FetchAnalyses, prov \in Providers :
          util = [fn |-> "fetch", phase |-> "called", analysis |-> analysis, prov |-> prov]

FetchRelevantData ==
    /\ util.fn = "fetch" /\ util.phase = "called"
    /\ util' = [util EXCEPT !.phase = "returned"] @@
               [out |-> fetch_relevant_data(<<"Best", " ", "funds">>, util.analysis, util.prov)]
    /\ UNCHANGED <<sessions, heap, uuids, cache, clock, slot, nreq, nadmin, last, prior, origin, agent,
                   prefetch, profiles>>

FetchNext == FetchRelevantData

SpecFetch == FetchInit /\ [][FetchNext]_vars

\* ---- the except handler of run_agent and the backfill of sources, applied
\* ---- to fetched data on their own
\* the exceptions of the try block: the LLM client's rate-limit, timeout and
\* validation errors, and any other exception; str(e) is the msg
AgentErrors ==
    { [kind |-> "RateLimited", msg |-> <<"Rate limit", " ", "exceeded">>],
      [kind |-> "Timeout", msg |-> <<"Request", " ", "timed out">>],
      [kind |-> "SchemaValidation", msg |-> <<"validation", " ", "error">>],
      [kind |-> "Other", msg |-> <<"boom">>] }

str(e) == e.msg

\* lines 877-891: the handler returns [raised, response]
run_agent_except(user_message, data, e) ==
    LET error_msg == str(e)
    IN  IF _generate_fallback_explanation_raises(data)
        THEN [raised |-> TRUE, response |-> NoResponse]
        ELSE [raised |-> FALSE,
              response |-> [FailureResponse(user_message, data) EXCEPT
                              !.explanation = _generate_fallback_explanation(user_message, data,
                                                                             error_msg)]]

RespondAnalyses ==
    { QueryAnalysis([is_finance_related |-> TRUE, intent |-> "info", fund_names |-> names,
                     fund_categories |-> cats, stock_symbols |-> symbols,
                     needs_market_data |-> market, search_terms |-> <<>>]) :
        names \in Lists({"sbi bluechip", "index"}, 2), cats \in Lists({"large cap"}, 1),
        symbols \in Lists({"RELIANCE"}, 1), market \in BOOLEAN }

FetchedData ==
    { fetch_relevant_data(<<"Best", " ", "funds">>, a, prov).data :
        a \in RespondAnalyses, prov \in Providers } \cup {EmptyData}

RespondInit ==
    /\ ChatInit
    /\ cache = EmptyStore
    /\ agent = AgentIdle
    /\ \E data \in FetchedData :
          \/ \E e \in AgentErrors :
                util = [fn |-> "except", phase |-> "called", data |-> data, error |-> e,
                        user_message |-> <<"Best", " ", "funds">>]
          \/ util = [fn |-> "sources", phase |-> "called", data |-> data]

RunAgentExcept ==
    /\ util.fn = "except" /\ util.phase = "called"
    /\ util' = [util EXCEPT !.phase = "returned"] @@
               [out |-> run_agent_except(util.user_message, util.data, util.error)]
    /\ UNCHANGED <<sessions, heap, uuids, cache, clock, slot, nreq, nadmin, last, prior, origin, agent,
                   prefetch, profiles>>

CreateSourcesFromData ==
    /\ util.fn = "sources" /\ util.phase = "called"
    /\ util' = [util EXCEPT !.phase = "returned"] @@
               [out |-> create_sources_from_data(util.data)]
    /\ UNCHANGED <<sessions, heap, uuids, cache, clock, slot, nreq, nadmin, last, prior, origin, agent,
                   prefetch, profiles>>

RespondNext == RunAgentExcept \/ CreateSourcesFromData

SpecRespond == RespondInit /\ [][RespondNext]_vars

\* ---- compliance.py: data freshness and the confidence score
\* the as_of_date strings: the layout of each and the numbers it holds
AsOfDates ==
    [s \in {"2026-11-01", "27-10-2026", "26 Oct 2026", "2024-02-22", "21-02-2024",
            "2026-02-30", "01/11/2026", "N/A"} |->
       CASE s = "2026-11-01" -> [form |-> "%Y-%m-%d", year |-> 2026, month |-> 11, day |-> 1]
         [] s = "27-10-2026" -> [form |-> "%d-%m-%Y", year |-> 2026, month |-> 10, day |-> 27]
         [] s = "26 Oct 2026" -> [form |-> "%d %b %Y", year |-> 2026, month |-> 10, day |-> 26]
         [] s = "2024-02-22" -> [form |-> "%Y-%m-%d", year |-> 2024, month |-> 2, day |-> 22]
         [] s = "21-02-2024" -> [form |-> "%d-%m-%Y", year |-> 2024, month |-> 2, day |-> 21]
         [] s = "2026-02-30" -> [form |-> "%Y-%m-%d", year |-> 2026, month |-> 2, day |-> 30]
         [] s = "01/11/2026" -> [form |-> "%d/%m/%Y", year |-> 2026, month |-> 11, day |-> 1]
         [] OTHER -> [form |-> "text", year |-> 0, month |-> 0, day |-> 0]]

FRESHNESS_FORMATS == <<"%Y-%m-%d", "%d-%m-%Y", "%d %b %Y">>

MAX_AGE_DAYS == 7

\* datetime.strptime(date_string, fmt).date(): ValueError when the string
\* has another layout or names no day of the calendar; the value is in days
strptime(date_string, fmt) ==
    LET parts == AsOfDates[date_string]
        dt == datetime(parts.year, parts.month, parts.day)
    IN  IF parts.form = fmt /\ ~dt.raised
        THEN [raised |-> FALSE, value |-> dt.t \div 24]
        ELSE [raised |-> TRUE, value |-> 0]

\* the inner loop over the formats for one data point: TRUE when the point is
\* appended to stale_points
IsStale(dp, today, max_age_days) ==
    LET parsing == { i \in DOMAIN FRESHNESS_FORMATS :
                       ~strptime(dp.as_of_date, FRESHNESS_FORMATS[i]).raised }
    IN  /\ parsing # {}
        /\ LET first == CHOOSE i \in parsing : \A j \in parsing : i <= j
               data_date == strptime(dp.as_of_date, FRESHNESS_FORMATS[first]).value
               age == today - data_date
           IN  age > max_age_days

\* returns [is_fresh, stale_points]
validate_data_freshness(data_points, max_age_days, today) ==
    LET stale == SelectSeq(data_points, LAMBDA dp : IsStale(dp, today, max_age_days))
    IN  [is_fresh |-> Len(stale) = 0,
         stale_points |-> [i \in DOMAIN stale |-> stale[i].metric]]

\* the score in hundredths
calculate_confidence_score(has_data_points, has_sources, data_fresh, query_matched) ==
    LET score == 40 + (IF has_data_points THEN 20 ELSE 0) + (IF has_sources THEN 20 ELSE 0)
                    + (IF data_fresh THEN 10 ELSE 0) + (IF query_matched THEN 10 ELSE 0)
    IN  Min(score, 100)

\* len() of the explanations the calls are made with
len(explanation) ==
    CASE explanation = <<"## Fund Information">> -> 19
      [] explanation = <<"Hi">> -> 2
      [] OTHER -> 0

check_response_compliance(explanation, data_points, sources) ==
    LET missing == (IF explanation = <<>> \/ len(explanation) < 10
                    THEN <<"meaningful explanation">> ELSE <<>>)
                   \o (IF data_points = <<>>
                       THEN <<"data points with specific metrics">> ELSE <<>>)
                   \o (IF sources = <<>> THEN <<"source citations">> ELSE <<>>)
    IN  [is_compliant |-> Len(missing) = 0,
         has_data_points |-> data_points # <<>>,
         has_sources |-> sources # <<>>,
         missing_elements |-> missing,
         risk_disclaimer |-> STANDARD_RISK_DISCLAIMER]

finalize_response(explanation, data_points, sources, today) ==
    LET compliance == check_response_compliance(explanation, data_points, sources)
        data_fresh == validate_data_freshness(data_points, MAX_AGE_DAYS, today).is_fresh
        confidence == calculate_confidence_score(compliance.has_data_points,
                                                 compliance.has_sources, data_fresh, TRUE)
    IN  InvestmentResponse([explanation |-> explanation,
                            data_points |-> data_points,
                            sources |-> sources,
                            risk_disclaimer |-> compliance.risk_disclaimer,
                            confidence_score |-> confidence])

MaxDataPoints == 2

ConfidenceDataPoints ==
    Lists({ DataPoint("NAV", "45.67", d) : d \in DOMAIN AsOfDates }, MaxDataPoints)

ConfidenceInit ==
    /\ ChatInit
    /\ cache = EmptyStore
    /\ agent = AgentIdle
    /\ \E now \in Nows, data_points \in ConfidenceDataPoints,
          sources \in {<<>>, <<Source(<<"AMFI India - NAV Data">>, AMFI_NAV_URL)>>},
          explanation \in {<<>>, <<"Hi">>, <<"## Fund Information">>} :
          util = [fn |-> "finalize", phase |-> "called", today |-> NowOf(now) \div 24,
                  explanation |-> explanation, data_points |-> data_points,
                  sources |-> sources]

FinalizeResponse ==
    /\ util.fn = "finalize" /\ util.phase = "called"
    /\ util' = [util EXCEPT !.phase = "returned"] @@
               [out |-> finalize_response(util.explanation, util.data_points, util.sources,
                                          util.today)]
    /\ UNCHANGED <<sessions, heap, uuids, cache, clock, slot, nreq, nadmin, last, prior, origin, agent,
                   prefetch, profiles>>

ConfidenceNext == FinalizeResponse

SpecConfidence == ConfidenceInit /\ [][ConfidenceNext]_vars

\* ---- services/data_prefetch_service.py: the prefetch cycle as tasks of the
\* ---- event loop; a task runs without interruption from one await to the next
POPULAR_FUND_CODES ==
    <<"119598", "118834", "120503", "120505", "118989", "100356", "120716", "119597",
      "118825", "120847", "119062", "118632", "119028", "120837", "118989">>

POPULAR_CATEGORIES == <<"large cap", "mid cap", "small cap", "index", "elss", "flexi cap">>

FALLBACK_FUND_DATA ==
    [c \in {"119598", "118834", "120503", "120505", "118989", "100356", "120847", "120837"} |->
       [scheme_code |-> c,
        scheme_name |->
          CASE c = "119598" -> "SBI Blue Chip Fund - Regular Plan - Growth"
            [] c = "118834" -> "HDFC Top 100 Fund - Regular Plan - Growth"
            [] c = "120503" -> "Axis Bluechip Fund - Regular Plan - Growth"
            [] c = "120505" -> "ICICI Prudential Bluechip Fund - Growth"
            [] c = "118989" -> "Mirae Asset Large Cap Fund - Regular Plan - Growth"
            [] c = "100356" -> "UTI Nifty 50 Index Fund - Growth"
            [] c = "120847" -> "Parag Parikh Flexi Cap Fund - Regular Plan - Growth"
            [] OTHER -> "Axis Midcap Fund - Regular Plan - Growth",
        nav_date |-> "2026-02-20"]]

FALLBACK_DETAILS_TTL == 86400
LIVE_DETAILS_TTL == 3600
CATEGORY_TTL == 3600

\* the items of one cycle in the order of the two loops
PrefetchItems == POPULAR_FUND_CODES \o POPULAR_CATEGORIES

DetailsKey(scheme_code) == <<"details_", scheme_code>>

\* f"category_{category.replace(' ', '_')}"
CategoryKey(category) == <<"category_", category>>

_cache_fallback_fund(store, scheme_code, now) ==
    IF scheme_code \in DOMAIN FALLBACK_FUND_DATA
    THEN CacheSet(store, DetailsKey(scheme_code), FALLBACK_FUND_DATA[scheme_code],
                  FALLBACK_DETAILS_TTL, now)
    ELSE store

\* MutualFundService.get_fund_details over FundRepository.get_scheme_details:
\* a cached entry is answered from the cache, otherwise the provider answers
\* "details" (cached by the repository), "none" or the call raises;
\* returns [store, result] with result "details", "none" or "raise"
get_fund_details(store, scheme_code, outcome, now) ==
    IF outcome = "raise" THEN [store |-> store, result |-> "raise"]
    ELSE IF CacheGet(store, DetailsKey(scheme_code), now) # None
         THEN [store |-> store, result |-> "details"]
    ELSE IF outcome = "details"
         THEN [store |-> CacheSet(store, DetailsKey(scheme_code),
                                  [scheme_code |-> scheme_code, scheme_name |-> "live",
                                   nav_date |-> "today"],
                                  LIVE_DETAILS_TTL, now),
               result |-> "details"]
    ELSE [store |-> store, result |-> "none"]

\* one pass of the loop of prefetch_popular_funds up to its sleep; st is
\* [store, success_count, raised], raised when an exception leaves the loop
prefetch_fund_mut_no_except(store, success_count, scheme_code, outcome, now) ==
    LET got == get_fund_details(store, scheme_code, outcome, now)
    IN  IF got.result = "details"
        THEN [store |-> got.store, success_count |-> success_count + 1, raised |-> FALSE]
        ELSE IF got.result = "none"
        THEN [store |-> _cache_fallback_fund(got.store, scheme_code, now),
              success_count |-> success_count, raised |-> FALSE]
        ELSE [store |-> got.store, success_count |-> success_count, raised |-> TRUE]

prefetch_fund(store, success_count, scheme_code, outcome, now) ==
    LET got == get_fund_details(store, scheme_code, outcome, now)
    IN  IF got.result = "details"
        THEN [store |-> got.store, success_count |-> success_count + 1, raised |-> FALSE]
        ELSE [store |-> _cache_fallback_fund(got.store, scheme_code, now),
              success_count |-> success_count, raised |-> FALSE]

\* one pass of the loop of prefetch_categories; outcome is what search_funds
\* does: "results", "empty" or "raise"
prefetch_category(store, success_count, category, outcome, now) ==
    [store |-> IF outcome = "results"
               THEN CacheSet(store, CategoryKey(category), <<"results", category>>,
                             CATEGORY_TTL, now)
               ELSE store,
     success_count |-> success_count, raised |-> FALSE]

Tasks == {"t1", "t2"}

NewTask == [pc |-> "new", k |-> 0, success_count |-> 0, attempted |-> <<>>]

\* what the mutual fund service does for the k-th item of a cycle: a fault
\* (no answer, or an exception) for one item, for every item, or for none
Faults == {"none", "raise"}

ServiceBehaviours ==
    { [k \in DOMAIN PrefetchItems |-> "ok"] }
    \cup { [k \in DOMAIN PrefetchItems |-> f] : f \in Faults }
    \cup { [k \in DOMAIN PrefetchItems |-> IF k = at THEN f ELSE "ok"] :
             at \in {1, 5, 7, 15, 16, 21}, f \in Faults }

OutcomeFor(service, k) ==
    IF service[k] # "ok" THEN (IF k > Len(POPULAR_FUND_CODES) /\ service[k] = "none"
                               THEN "empty" ELSE service[k])
    ELSE IF k <= Len(POPULAR_FUND_CODES) THEN "details" ELSE "results"

\* the task runs item k + 1 and reaches the sleep after it, or an exception
\* leaves the loop; the finally clause of run_prefetch_cycle then clears the flag
PrefetchPass(pf, store, t, now) ==
    LET task == pf.task[t]
        k == task.k + 1
        item == PrefetchItems[k]
        outcome == OutcomeFor(pf.service, k)
        res == IF k <= Len(POPULAR_FUND_CODES)
               THEN prefetch_fund(store, task.success_count, item, outcome, now)
               ELSE prefetch_category(store, task.success_count, item, outcome, now)
    IN  [store |-> res.store,
         pf |-> [pf EXCEPT !.task[t] = [pc |-> IF res.raised THEN "failed" ELSE "sleep",
                                        k |-> k,
                                        success_count |-> res.success_count,
                                        attempted |-> Append(task.attempted, item)],
                           !.is_running = ~res.raised]]

PrefetchInit ==
    /\ ChatIdle
    /\ cache = EmptyStore
    /\ agent = AgentIdle
    /\ util = UtilIdle
    /\ profiles = ProfilesOff
    /\ \E service \in ServiceBehaviours :
          prefetch = [phase |-> "on", is_running |-> FALSE, last_prefetch |-> None,
                      service |-> service, task |-> [t \in Tasks |-> NewTask]]

\* run_prefetch_cycle without the test of _is_running
RunPrefetchCycle_mut_no_flag_test(t) ==
    /\ prefetch.phase = "on"
    /\ prefetch.task[t].pc = "new"
    /\ LET pass == PrefetchPass([prefetch EXCEPT !.is_running = TRUE], cache, t, clock)
       IN  /\ prefetch' = pass.pf
           /\ cache' = pass.store
    /\ UNCHANGED <<sessions, heap, uuids, clock, slot, nreq, nadmin, last, prior, origin, agent,
                   util, profiles>>

\* asyncio.create_task(service.run_prefetch_cycle()): the task's first run, from
\* the test of _is_running to the first sleep
RunPrefetchCycle(t) ==
    /\ prefetch.phase = "on"
    /\ prefetch.task[t].pc = "new"
    /\ IF prefetch.is_running
       THEN /\ prefetch' = [prefetch EXCEPT !.task[t].pc = "skipped"]
            /\ cache' = cache
       ELSE LET pass == PrefetchPass([prefetch EXCEPT !.is_running = TRUE], cache, t, clock)
            IN  /\ prefetch' = pass.pf
                /\ cache' = pass.store
    /\ UNCHANGED <<sessions, heap, uuids, clock, slot, nreq, nadmin, last, prior, origin, agent,
                   util, profiles>>

\* the sleep is over: the next item, or the end of the cycle
PrefetchResume(t) ==
    /\ prefetch.phase = "on"
    /\ prefetch.task[t].pc = "sleep"
    /\ IF prefetch.task[t].k < Len(PrefetchItems)
       THEN LET pass == PrefetchPass(prefetch, cache, t, clock)
            IN  /\ prefetch' = pass.pf
                /\ cache' = pass.store
       ELSE /\ prefetch' = [prefetch EXCEPT !.task[t].pc = "done",
                                            !.last_prefetch = Some(clock),
                                            !.is_running = FALSE]
            /\ cache' = cache
    /\ UNCHANGED <<sessions, heap, uuids, clock, slot, nreq, nadmin, last, prior, origin, agent,
                   util, profiles>>

\* the event loop cancels the task while it sleeps: CancelledError leaves
\* run_prefetch_cycle through its finally clause
PrefetchCancel(t) ==
    /\ prefetch.phase = "on"
    /\ prefetch.task[t].pc = "sleep"
    /\ prefetch' = [prefetch EXCEPT !.task[t].pc = "cancelled", !.is_running = FALSE]
    /\ UNCHANGED <<sessions, heap, uuids, cache, clock, slot, nreq, nadmin, last, prior, origin,
                   agent, util, profiles>>

PrefetchNext ==
    \E t \in Tasks : RunPrefetchCycle(t) \/ PrefetchResume(t) \/ PrefetchCancel(t)

SpecPrefetch == PrefetchInit /\ [][PrefetchNext]_vars

\* the event loop resumes every task whose sleep is over
SpecPrefetchFair ==
    SpecPrefetch /\ \A t \in Tasks : WF_vars(PrefetchResume(t))

\* ================== the response cache as a function of two requests: the
\* first is answered and cached, the second looks its key up
KeyMessages ==
    { <<"Best", " ", "funds", " ">>,
      <<"best", " ", "funds">>,
      <<" ", "best", " ", "funds">>,
      <<"What is", " ", "SIP">>,
      <<"best", " ", "funds", "_", "moderate">>,
      <<"best", " ", "funds", "_", "moderate", "_", "medium_term">> }

RiskTolerance == {"conservative", "moderate", "aggressive"}

InvestmentHorizon == {"short_term", "medium_term", "long_term"}

KeyProfiles ==
    {NoProfile} \cup { [present |-> TRUE, risk_tolerance |-> r, investment_horizon |-> h] :
                         r \in RiskTolerance, h \in InvestmentHorizon }

KeyResponse == InvestmentResponse([explanation |-> <<"answer">>])

KeyInit ==
    /\ ChatInit
    /\ cache = EmptyStore
    /\ agent = AgentIdle
    /\ \E m1 \in KeyMessages, p1 \in KeyProfiles, m2 \in KeyMessages, p2 \in KeyProfiles :
          util = [fn |-> "cache_key", phase |-> "called",
                  first |-> [message |-> m1, profile |-> p1],
                  second |-> [message |-> m2, profile |-> p2]]

\* process_message for the first request: the runner's response is cached
CacheFirstResponse ==
    /\ util.fn = "cache_key" /\ util.phase = "called"
    /\ cache' = _cache_response(cache, util.first.message, KeyResponse, util.first.profile, clock)
    /\ util' = [util EXCEPT !.phase = "cached"]
    /\ UNCHANGED <<sessions, heap, uuids, clock, slot, nreq, nadmin, last, prior, origin, agent,
                   prefetch, profiles>>

\* process_message for the second request, up to the test of cached_response
LookupSecondResponse ==
    /\ util.fn = "cache_key" /\ util.phase = "cached"
    /\ util' = [util EXCEPT !.phase = "returned"] @@
               [key1 |-> _get_response_cache_key(util.first.message, util.first.profile),
                key2 |-> _get_response_cache_key(util.second.message, util.second.profile),
                out |-> _get_cached_response(cache, util.second.message, util.second.profile,
                                             clock)]
    /\ UNCHANGED <<sessions, heap, uuids, cache, clock, slot, nreq, nadmin, last, prior, origin,
                   agent, prefetch, profiles>>

KeyNext == CacheFirstResponse \/ LookupSecondResponse

SpecKey == KeyInit /\ [][KeyNext]_vars

\* ================== routes/profile.py: the profile routes over _profiles
\* and the cache
PROFILE_TTL == 2592000

MaxProfileCalls == 3

ProfileKey(user_id) == <<"profile_", user_id>>

\* pydantic model with its defaults
UserProfile(kw) ==
    [user_id |-> kw.user_id,
     name |-> Field(kw, "name", None),
     risk_tolerance |-> Field(kw, "risk_tolerance", "moderate"),
     investment_horizon |-> Field(kw, "investment_horizon", "medium_term")]

ProfileRequests ==
    { [name |-> Some("Asha"), risk_tolerance |-> "aggressive", investment_horizon |-> "long_term"],
      [name |-> None, risk_tolerance |-> "conservative", investment_horizon |-> "short_term"] }

\* the ids a client puts into the path: one the service generates, one
\* persisted by an earlier run of the process, one never created
PathUserIds == {"u1", "u0", "ghost"}

\* mem = [map, uuids]: the _profiles dict and the number of generated ids;
\* user_id and request are optional.  Returns [mem, profile].
_get_or_create_profile(mem, store, user_id, request, now) ==
    IF user_id # None /\ user_id[1] \in DOMAIN mem.map
    THEN [mem |-> mem, profile |-> mem.map[user_id[1]]]
    ELSE
    LET cached == IF user_id # None THEN CacheGet(store, ProfileKey(user_id[1]), now) ELSE None
    IN IF cached # None
       THEN [mem |-> [mem EXCEPT !.map = (user_id[1] :> UserProfile(cached[1])) @@ mem.map],
             profile |-> UserProfile(cached[1])]
       ELSE LET new_id == IF user_id # None THEN user_id[1] ELSE UUIDS[mem.uuids + 1]
                profile == IF request # None
                           THEN UserProfile([user_id |-> new_id, name |-> request[1].name,
                                             risk_tolerance |-> request[1].risk_tolerance,
                                             investment_horizon |-> request[1].investment_horizon])
                           ELSE UserProfile([user_id |-> new_id])
            IN [mem |-> [map |-> (new_id :> profile) @@ mem.map,
                         uuids |-> IF user_id # None THEN mem.uuids ELSE mem.uuids + 1],
                profile |-> profile]

_save_profile(store, profile, now) ==
    CacheSet(store, ProfileKey(profile.user_id), model_dump(profile), PROFILE_TTL, now)

ProfileMem == [map |-> profiles.map, uuids |-> profiles.uuids]

ProfileAnswer(op, user_id, status, body) ==
    [op |-> op, user_id |-> user_id, status |-> status, body |-> body]

ProfileFrame ==
    UNCHANGED <<sessions, heap, uuids, clock, slot, nreq, nadmin, last, prior, origin, agent, util,
                prefetch>>

ProfileInit ==
    /\ ChatIdle
    /\ agent = AgentIdle
    /\ util = UtilIdle
    /\ prefetch = PrefetchOff
    /\ cache \in {EmptyStore,
                  _save_profile(EmptyStore, UserProfile([user_id |-> "u0"]), 0)}
    /\ profiles = [phase |-> "on", map |-> EmptyStore, uuids |-> 0, n |-> 0,
                   last |-> ProfileAnswer("none", "", 0, None)]

\* POST /profile
create_profile(request) ==
    /\ profiles.n < MaxProfileCalls
    /\ LET got == _get_or_create_profile(ProfileMem, cache, None, Some(request), clock)
       IN /\ cache' = _save_profile(cache, got.profile, clock)
          /\ profiles' = [profiles EXCEPT !.map = got.mem.map, !.uuids = got.mem.uuids,
                                          !.n = @ + 1,
                                          !.last = ProfileAnswer("create_profile",
                                                                 got.profile.user_id, 200,
                                                                 Some(got.profile))]
    /\ ProfileFrame

\* GET /profile/{user_id} and GET /profile/{user_id}/recommendations: the same
\* lookup and test, the answers differ in what they derive from the profile
ProfileLookup(op, user_id) ==
    /\ profiles.n < MaxProfileCalls
    /\ LET got == _get_or_create_profile(ProfileMem, cache, Some(user_id), None, clock)
       IN profiles' = [profiles EXCEPT !.map = got.mem.map, !.uuids = got.mem.uuids,
                                       !.n = @ + 1,
                                       !.last = IF got.profile.user_id # user_id
                                                THEN ProfileAnswer(op, user_id, 404, None)
                                                ELSE ProfileAnswer(op, user_id, 200,
                                                                   Some(got.profile))]
    /\ UNCHANGED cache
    /\ ProfileFrame

get_profile(user_id) == ProfileLookup("get_profile", user_id)

get_profile_recommendations(user_id) == ProfileLookup("get_profile_recommendations", user_id)

\* PUT /profile/{user_id}
update_profile(user_id, request) ==
    /\ profiles.n < MaxProfileCalls
    /\ LET got == _get_or_create_profile(ProfileMem, cache, Some(user_id), None, clock)
           profile == [got.profile EXCEPT !.name = request.name,
                                          !.risk_tolerance = request.risk_tolerance,
                                          !.investment_horizon = request.investment_horizon]
       IN IF got.profile.user_id # user_id
          THEN /\ profiles' = [profiles EXCEPT !.map = got.mem.map, !.uuids = got.mem.uuids,
                                               !.n = @ + 1,
                                               !.last = ProfileAnswer("update_profile", user_id,
                                                                      404, None)]
               /\ UNCHANGED cache
          ELSE /\ profiles' = [profiles EXCEPT !.map = (user_id :> profile) @@ got.mem.map,
                                               !.uuids = got.mem.uuids,
                                               !.n = @ + 1,
                                               !.last = ProfileAnswer("update_profile", user_id,
                                                                      200, Some(profile))]
               /\ cache' = _save_profile(cache, profile, clock)
    /\ ProfileFrame

\* DELETE /profile/{user_id}
delete_profile(user_id) ==
    /\ profiles.n < MaxProfileCalls
    /\ profiles' = [profiles EXCEPT !.map = Without(profiles.map, user_id),
                                    !.n = @ + 1,
                                    !.last = ProfileAnswer("delete_profile", user_id, 200, None)]
    /\ cache' = CacheDelete(cache, ProfileKey(user_id))
    /\ ProfileFrame

ProfileNext ==
    \/ \E request \in ProfileRequests : create_profile(request)
    \/ \E user_id \in PathUserIds : get_profile(user_id)
    \/ \E user_id \in PathUserIds : get_profile_recommendations(user_id)
    \/ \E user_id \in PathUserIds, request \in ProfileRequests : update_profile(user_id, request)
    \/ \E user_id \in PathUserIds : delete_profile(user_id)

SpecProfile == ProfileInit /\ [][ProfileNext]_vars

\* ================================================================ properties
\* ---- run_agent and run_agent_stream as functions (SpecAgent)
Returned == agent.phase = "returned"

OffTopicAnalysed ==
    /\ agent.phase \in {"returned", "streamed"}
    /\ SeqMember("analyze_query", agent.out.calls)
    /\ IsOffTopic(agent.env.analysis)

DataFetcherCalls ==
    {"research_mutual_fund", "search_funds_by_category", "research_stock",
     "research_market_overview"}

AnswerLLMCalls == {"simple_qa_agent", "final_llm"}

CallsMade == { agent.out.calls[i] : i \in DOMAIN agent.out.calls }

\* C1: for a query the analyzer classifies as off-topic, the response run_agent
\* returns has no data points, no sources, and the canned rejection message,
\* which is not empty, as its explanation
C1_OffTopicRejection ==
    (Returned /\ OffTopicAnalysed) =>
        /\ ~agent.out.raised
        /\ agent.out.response.data_points = <<>>
        /\ agent.out.response.sources = <<>>
        /\ agent.out.response.explanation # <<>>
        /\ agent.out.response.explanation = REJECTION_MESSAGE

\* C7 as stated: for an off-topic analysis no Data Fetcher call and no
\* answer-generating LLM call is made for the request
C7_NoFetchNoAnswerCall ==
    OffTopicAnalysed => CallsMade \cap (DataFetcherCalls \cup AnswerLLMCalls) = {}

\* C7 as the code has it: for an off-topic analysis the analysis is the last
\* call of the run, no Data Fetcher call is made at all, the answering model is
\* not called, and the only answer-generating call there can be is the simple
\* Q&A attempt that failed before the analysis
C7_NothingAfterAnalysis ==
    OffTopicAnalysed =>
        /\ agent.out.calls[Len(agent.out.calls)] = "analyze_query"
        /\ CallsMade \cap (DataFetcherCalls \cup {"final_llm"}) = {}
        /\ agent.out.path = "off_topic"
        /\ "simple_qa_agent" \in CallsMade =>
              /\ agent.out.calls[1] = "simple_qa_agent"
              /\ agent.env.simple_qa.raised

C7_Witness ==
    /\ OffTopicAnalysed
    /\ agent.env.analysis.fund_names # <<>>
    /\ agent.env.analysis.stock_symbols # <<>>
    /\ agent.env.analysis.needs_market_data

C7_SimpleAttemptWitness == OffTopicAnalysed /\ "simple_qa_agent" \in CallsMade

FinalLLMFailed ==
    /\ Returned
    /\ "final_llm" \in CallsMade
    /\ agent.env.final_llm.raised

\* C8: when the final answering LLM call fails on the non-streaming data path,
\* run_agent does not raise; its response has a risk disclaimer, at least one
\* source, the data points and an explanation built from the fetched data, and
\* a confidence below that of a normal answer (the default and the simple path)
C8_FailureResponse ==
    FinalLLMFailed =>
        /\ ~agent.out.raised
        /\ agent.out.response.risk_disclaimer # <<>>
        /\ Len(agent.out.response.sources) >= 1
        /\ agent.out.response.data_points = create_data_points_from_data(agent.out.data)
        /\ agent.out.response.explanation # <<>>
        /\ \A i \in 1..Min(3, Len(agent.out.data.funds)) :
              SeqMember(agent.out.data.funds[i].scheme_name, agent.out.response.explanation)
        /\ agent.out.response.confidence_score < DEFAULT_CONFIDENCE
        /\ agent.out.response.confidence_score < SIMPLE_QA_CONFIDENCE

C8_Witness ==
    /\ FinalLLMFailed
    /\ agent.out.data.funds # <<>>
    /\ agent.out.response.data_points # <<>>

C8_NoDataWitness ==
    /\ FinalLLMFailed
    /\ agent.out.data.funds = <<>>
    /\ agent.out.response.explanation = NO_DATA_EXPLANATION

\* ---- the chat service (Spec)
ResponseKeys(store) == { k \in DOMAIN store : k[1] = "response_" }

SessionKeys(store) == { k \in DOMAIN store : k[1] = "session_" }

\* C2: of two identical requests processed one after the other within the
\* response cache's time to live, the first answered with a response eligible
\* for the cache, the second is answered cached=true with the first one's
\* explanation and without a call of the Agent Runner
C2_SecondServedFromCache ==
    (last.op = "process_message" /\ last.due) =>
        /\ last.returned
        /\ last.cached
        /\ last.response.explanation = last.due_explanation
        /\ ~last.invoked

C2_Witness ==
    /\ last.op = "process_message"
    /\ last.due
    /\ last.cached
    /\ clock > 0
    /\ last.response.explanation # <<>>

\* C3: a response with a confidence below 0.5, 0.0 included, is never written
\* to the response cache and never served with cached=true
C3_LowConfidenceNeverCached ==
    /\ \A k \in ResponseKeys(cache) :
          cache[k].value.confidence_score >= LOW_CONFIDENCE_THRESHOLD
    /\ last.cached => last.response.confidence_score >= LOW_CONFIDENCE_THRESHOLD

\* C4: a response synthesized by run_agent after the final LLM call raised is
\* never stored in the response cache
C4_FailureNeverCached ==
    \A k \in DOMAIN origin : origin[k] # "llm_failure"

\* the turns of a message list, without the arrival numbers
Turns(messages) == [i \in DOMAIN messages |-> <<messages[i].role, messages[i].content>>]

\* the messages of a session as a request finds them: in memory, else persisted
SessionBefore(session_id) ==
    IF session_id \in DOMAIN sessions
    THEN heap[sessions[session_id]].messages
    ELSE LET persisted == CacheGet(cache, SessionKey(session_id), clock)
         IN IF persisted # None THEN persisted[1].messages ELSE <<>>

HitStep == last'.n = last.n + 1 /\ last'.cached

\* C5: on a response-cache hit process_message returns cached=true without a
\* call of the Agent Runner, appends the user message and then the cached
\* explanation to the session, and persists the session
C5_CacheHit ==
    [][HitStep =>
         LET sid == last'.session_id
             expected == Suffix(Turns(SessionBefore(sid))
                                \o << <<"user", last'.message>>,
                                      <<"assistant", last'.response.explanation>> >>,
                                MAX_SESSION_MESSAGES)
         IN /\ last'.returned
            /\ ~last'.invoked
            /\ slot' = slot
            /\ \E k \in ResponseKeys(cache) : cache[k].value = last'.response
            /\ sid \in DOMAIN sessions'
            /\ Turns(heap'[sessions'[sid]].messages) = expected
            /\ SessionKey(sid) \in DOMAIN cache'
            /\ clock' < cache'[SessionKey(sid)].expire
            /\ Turns(cache'[SessionKey(sid)].value.messages) = expected]_vars

C5_Witness ==
    /\ last.op = "process_message"
    /\ last.cached
    /\ last.session_id \in DOMAIN sessions
    /\ Len(heap[sessions[last.session_id]].messages) = MAX_SESSION_MESSAGES
    /\ last.response.explanation # <<>>

\* every message list the service holds: in memory and persisted
SessionLists ==
    { heap[o] : o \in DOMAIN heap } \cup { cache[k].value : k \in SessionKeys(cache) }

\* C6: a session's message list has at most 50 entries, and they are the most
\* recent ones in arrival order
C6_SessionCap ==
    \A s \in SessionLists :
        /\ Len(s.messages) <= MAX_SESSION_MESSAGES
        /\ Len(s.messages) = Min(s.arrived, MAX_SESSION_MESSAGES)
        /\ \A i \in DOMAIN s.messages :
              s.messages[i].seq = s.arrived - Len(s.messages) + i

C6_Witness ==
    \E s \in SessionLists :
        /\ s.arrived > MAX_SESSION_MESSAGES
        /\ s.messages[Len(s.messages)].role = "assistant"

\* C9: every response returned on the chat surface has a risk disclaimer
C9_DisclaimerAlways ==
    last.returned => last.response.risk_disclaimer # <<>>

\* C10: the events of a /chat/stream request are token events followed by
\* exactly one completion event, or end with an error event when the stream
\* runner raised
C10_StreamEvents ==
    last.op = "process_message_stream" =>
        /\ last.events # <<>>
        /\ \A i \in 1..(Len(last.events) - 1) : last.events[i] = "token"
        /\ last.events[Len(last.events)] = IF last.raised THEN "error" ELSE "complete"

\* ---------------------------------------------------------------- C11
DateReturned ==
    util.fn = "date" /\ util.phase = "returned" /\ ~util.out.raised /\ util.out.value # None

PeriodKeys == {"1m", "3m", "6m", "1y", "3y", "5y"}

\* C11: whenever the Date Resolver returns a DateRange, from the LLM strategy
\* or from the regex fallback, start_date <= end_date <= now holds and
\* get_period_key_for_range of it is one of 1m, 3m, 6m, 1y, 3y, 5y.
C11_RangeOrderedAndKeyed ==
    DateReturned =>
        LET date_range == util.out.value[1]
        IN  /\ date_range.start_date <= date_range.end_date
            /\ date_range.end_date <= NowOf(util.today)
            /\ get_period_key_for_range(date_range) \in PeriodKeys

\* ---------------------------------------------------------------- C18
\* the nine rules as the precedence list names them, on the lowercased words
RuleMatches(k, query) ==
    LET q == lower(query)
        n == Len(q)
        W(i) == IF i \in 1..n THEN q[i] ELSE ""
        Month(w) == w \in DOMAIN MONTH_MAP
    IN  \E i \in 1..n :
          CASE k = 1 -> W(i) \in RelativeWords /\ W(i + 1) \in DOMAIN IntOf
                        /\ W(i + 2) \in DOMAIN UnitOf
            [] k = 2 -> W(i) \in RelativeWords \cup {"this"} /\ W(i + 1) = "year"
            [] k = 3 -> W(i) = "ytd" \/ (W(i) = "year" /\ W(i + 1) = "to" /\ W(i + 2) = "date")
            [] k = 4 -> W(i) \in YearWords /\ W(i + 1) = "to" /\ W(i + 2) \in YearWords \cup {"25"}
            [] k = 5 -> Month(W(i)) /\ W(i + 1) \in YearWords /\ W(i + 2) = "to"
                        /\ Month(W(i + 3)) /\ W(i + 4) \in YearWords
            [] k = 6 -> W(i) \in {"since", "from"} /\ Month(W(i + 1)) /\ W(i + 2) \in YearWords
            [] k = 7 -> W(i) \in {"since", "from"} /\ W(i + 1) \in YearWords
            [] k = 8 -> W(i) = "in" /\ W(i + 1) \in YearWords
            [] OTHER -> W(i) \in SuffixTokens

RegexReturned ==
    util.fn = "date" /\ util.phase = "returned" /\ util.by = "regex" /\ ~util.out.raised

\* C18: the regex date fallback returns the result of the earliest of the nine
\* rules the query matches (relative period, last/this year, ytd, year range,
\* month range, since month, since year, in year, suffix token), and returns
\* no date range only for a query matching none of the nine.
C18_FirstMatchingRuleWins ==
    RegexReturned =>
        LET matching == { k \in 1..9 : RuleMatches(k, util.query) }
        IN  IF util.out.value = None THEN matching = {}
            ELSE /\ matching # {}
                 /\ \A k \in matching : util.out.value[1].rule <= k
                 /\ util.out.value[1].rule \in matching

\* ---------------------------------------------------------------- C12
LargeCapFetched ==
    /\ util.fn = "funds" /\ util.phase = "returned"
    /\ util.by = "search_funds_by_category"
    /\ util.prov.funds \in {"raise", "empty"}
    /\ util.query = "large cap" /\ util.limit = 5

\* C12: with the live provider unavailable or empty, search_funds_by_category
\* for "large cap" with limit 5 returns at most 5 funds, every one a large-cap
\* seed fund, ordered by descending match score.
C12_LargeCapFallback ==
    LargeCapFetched =>
        LET words == QueryWords(util.query)
            Seed(i) == CHOOSE f \in { FALLBACK_FUNDS[k] : k \in DOMAIN FALLBACK_FUNDS } :
                           ResultOf(f) = util.out[i]
        IN  /\ Len(util.out) <= 5
            /\ \A i \in DOMAIN util.out :
                  \E k \in DOMAIN FALLBACK_FUNDS :
                      /\ FALLBACK_FUNDS[k].key = "large cap"
                      /\ ResultOf(FALLBACK_FUNDS[k]) = util.out[i]
            /\ \A i, j \in DOMAIN util.out :
                  i < j => FallbackScore(words, Seed(i)) >= FallbackScore(words, Seed(j))

\* ---------------------------------------------------------------- C13
CompareReturned == util.fn = "compare" /\ util.phase = "returned"

\* C13: POST /funds/compare answers 400 to every list of fewer than 2 or more
\* than 5 scheme codes, before any provider lookup; a list of 2 to 5 codes is
\* not answered 400.
C13_CompareArity ==
    CompareReturned =>
        IF Len(util.scheme_codes) < 2 \/ Len(util.scheme_codes) > 5
        THEN util.out.status = 400 /\ util.out.lookups = <<>>
        ELSE util.out.status # 400

C13_Witness ==
    /\ CompareReturned
    /\ Len(util.scheme_codes) > 5
    /\ util.out.status = 400
    /\ \E c \in SchemeCodes : util.repo[c] = "found"

\* ---------------------------------------------------------------- C14
CalcReturned(by) == util.fn = "calc" /\ util.phase = "returned" /\ util.by = by

\* C14: calculate_cagr returns None whenever beginning_value <= 0,
\* ending_value <= 0 or years <= 0 and returns a number for every strictly
\* positive triple; calculate_absolute_return returns None whenever
\* beginning_value <= 0.
C14_CagrNoneOrNumber ==
    /\ CalcReturned("calculate_cagr") =>
          IF util.beginning_value.sign <= 0 \/ util.ending_value.sign <= 0 \/ util.years.sign <= 0
          THEN util.out.kind = "none"
          ELSE util.out.kind \in {"number", "inf"}
    /\ CalcReturned("calculate_absolute_return") =>
          (util.beginning_value.sign <= 0 => util.out.kind = "none")

\* ---------------------------------------------------------------- C15
FetchReturned == util.fn = "fetch" /\ util.phase = "returned"

CallCount(calls, name) == Cardinality({ i \in DOMAIN calls : calls[i] = name })

\* C15: one fetch cycle ends with at most 5 funds in the merged fund list, at
\* most 3 stock lookups and at most 2 categories requested by the analyzer
\* fetched.
C15_FetchCaps ==
    FetchReturned =>
        /\ Len(util.out.data.funds) <= 5
        /\ CallCount(util.out.calls, "research_stock") <= 3
        /\ Len(util.out.data.categories) <= 2
        /\ CallCount(util.out.calls, "search_funds_by_category")
              <= 2 + (IF util.analysis.fund_categories = <<>> THEN 1 ELSE 0)

\* ---------------------------------------------------------------- C16
SimpleAnswerBlank ==
    /\ Returned
    /\ is_simple_query(agent.message)
    /\ ~agent.env.simple_qa.raised
    /\ IsBlank(agent.env.simple_qa.output.explanation)

\* C16: on the simple path an empty or whitespace-only explanation of the Q&A
\* model makes the request continue into the data path (analysis, fetch, main
\* LLM call), and the simple path never returns an explanation the model did
\* not produce.
C16_BlankSimpleAnswerFallsThrough ==
    /\ SimpleAnswerBlank =>
          /\ agent.out.path # "simple"
          /\ SeqMember("analyze_query", agent.out.calls)
    /\ (Returned /\ agent.out.path = "simple") =>
          agent.out.response.explanation = agent.env.simple_qa.output.explanation


ExceptReturned == util.fn = "except" /\ util.phase = "returned" /\ ~util.out.raised

\* C17: on a generation failure the user-facing message is selected by the
\* kind of the error: errors of two different kinds (rate limit, timeout,
\* validation, other) yield different messages for the same query and data,
\* and an error of no particular kind yields the message that asks to rephrase
C17_MessageByErrorKind ==
    ExceptReturned =>
        /\ \A e \in AgentErrors :
              e.kind # util.error.kind =>
                 run_agent_except(util.user_message, util.data, e).response.explanation
                    # util.out.response.explanation
        /\ util.error.kind = "Other" =>
              \E i \in DOMAIN util.out.response.explanation :
                 Contains(Text(util.out.response.explanation[i]), <<"rephrase">>)


FinalizeReturned == util.fn = "finalize" /\ util.phase = "returned"

\* the date of an as_of_date string when it is written in one of the three
\* formats and names a day of the calendar
ParsesAsDate(as_of_date) ==
    \E i \in DOMAIN FRESHNESS_FORMATS : ~strptime(as_of_date, FRESHNESS_FORMATS[i]).raised

AllFresh(data_points, today) ==
    \A i \in DOMAIN data_points :
       /\ ParsesAsDate(data_points[i].as_of_date)
       /\ \E k \in DOMAIN FRESHNESS_FORMATS :
             LET parsed == strptime(data_points[i].as_of_date, FRESHNESS_FORMATS[k])
             IN  ~parsed.raised /\ today - parsed.value <= MAX_AGE_DAYS

\* C19: the confidence score of finalize_response is
\* min(1.0, 0.4 + 0.2*[data_points non-empty] + 0.2*[sources non-empty]
\* + 0.1*[fresh] + 0.1), in hundredths here, where fresh holds exactly when
\* every data point's as_of_date parses under one of the three formats and is
\* at most 7 days old; a data point with an unparseable date makes the data
\* not fresh
C19_ConfidenceFormula ==
    FinalizeReturned =>
        util.out.confidence_score =
            Min(100, 40 + (IF util.data_points # <<>> THEN 20 ELSE 0)
                        + (IF util.sources # <<>> THEN 20 ELSE 0)
                        + (IF AllFresh(util.data_points, util.today) THEN 10 ELSE 0)
                        + 10)


SourcesReturned == util.fn = "sources" /\ util.phase = "returned"

\* C20: for any fetched data, none at all included, the source list of
\* create_sources_from_data is non-empty and holds no two sources with the
\* same URL; when nothing was fetched it is exactly the one generic AMFI
\* NAV-listing source
C20_SourcesDistinctAndNonEmpty ==
    SourcesReturned =>
        /\ util.out # <<>>
        /\ \A i, j \in DOMAIN util.out : util.out[i].url = util.out[j].url => i = j
        /\ util.data = EmptyData =>
              util.out = <<Source(<<"AMFI India - NAV Data">>, AMFI_NAV_URL)>>

\* a fund fetched by name is also one of the first two funds of the first
\* category, and a stock and the market overview were fetched too
C20_Witness ==
    /\ SourcesReturned
    /\ util.data.categories # <<>>
    /\ \E i \in DOMAIN Prefix(util.data.funds, 3),
          j \in DOMAIN Prefix(util.data.categories[1].funds, 2) :
          util.data.funds[i].source_url = util.data.categories[1].funds[j].source_url
    /\ util.data.stocks # <<>>
    /\ util.data.market # None

C20_NothingFetchedWitness == SourcesReturned /\ util.data = EmptyData


\* C21: in a prefetch cycle a failure for one item (the provider raises or
\* answers nothing for a popular fund code or a category) never aborts the
\* cycle: no exception leaves the loops, a cycle that is not cancelled has
\* attempted the items in order up to its position and all of them when it is
\* done, and every cycle that was started comes to an end
C21_PrefetchCycleSurvivesFailures ==
    /\ [](\A t \in Tasks :
            /\ prefetch.task[t].pc # "failed"
            /\ prefetch.task[t].pc \in {"sleep", "done"} =>
                  prefetch.task[t].attempted = Prefix(PrefetchItems, prefetch.task[t].k)
            /\ prefetch.task[t].pc = "done" => prefetch.task[t].attempted = PrefetchItems)
    /\ \A t \in Tasks :
          (prefetch.task[t].pc = "sleep") ~> (prefetch.task[t].pc \in {"done", "cancelled"})

\* a cycle ran to its end although the provider raised for every item
C21_Witness ==
    /\ prefetch.task["t1"].pc = "done"
    /\ \A k \in DOMAIN PrefetchItems : prefetch.service[k] = "raise"
    /\ prefetch.task["t1"].attempted = PrefetchItems


\* C22: once POST /reset has completed, no chat response cached before it is
\* served again with cached=true, and no session history recorded before it is
\* returned by a history read or handed to the runner as context: right after
\* the reset no request finds a cached response and the history of every
\* session id reads empty.
C22_ResetForgetsEverything ==
    [][ResetApplication =>
         /\ \A m \in ChatMessages, pr \in Profiles :
               _get_cached_response(cache', m, pr, clock') = None
         /\ \A sid \in RequestSessionIds \ {None} :
               get_conversation_history(Mem', cache', sid[1], clock').history = <<>>]_vars


\* the in-memory session of an id and the session persisted under session_{id}
\* hold the same message list (no in-memory session and no usable cache entry
\* both count as the empty list)
TiersAgree(mem, store, session_id, now) ==
    LET in_memory == IF session_id \in DOMAIN mem.sessions
                     THEN mem.heap[mem.sessions[session_id]].messages ELSE <<>>
        cached == CacheGet(store, SessionKey(session_id), now)
        persisted == IF cached # None THEN cached[1].messages ELSE <<>>
    IN in_memory = persisted

\* C23: at every request boundary the two session tiers agree: when
\* process_message has returned or raised, or a stream has finished with or
\* without an error event, the in-memory session of that session id and the
\* one persisted under session_{id} hold the same message list.
C23_TiersAgreeAtRequestBoundary ==
    [][(last'.n # last.n) => TiersAgree(Mem', cache', last'.session_id, clock')]_vars


\* the messages two lists have in common
Shared(messages, others) ==
    { i \in DOMAIN messages : \E j \in DOMAIN others : others[j] = messages[i] }

\* C24: clear_session is final with respect to work in flight: when
\* clear_session(id) completed while a process_message request of the same id
\* was suspended at the runner, then once that request has finished neither
\* the in-memory session map nor the cache entry session_{id} holds a message
\* sent before the clear.
C24_ClearSessionIsFinal ==
    [][\A p \in Procs :
         (/\ slot[p].pc = "await"
          /\ slot'[p].pc = "idle"
          /\ slot[p].session_id \notin DOMAIN sessions) =>
            LET before == heap[slot[p].session].messages
                cached == CacheGet(cache', SessionKey(slot[p].session_id), clock')
            IN /\ cached # None => Shared(cached[1].messages, before) = {}
               /\ slot[p].session_id \in DOMAIN sessions' =>
                     Shared(heap'[sessions'[slot[p].session_id]].messages, before) = {}]_vars


\* every turn of the list occurs in messages as often as it occurs in the list
HoldsTurns(messages, turns) ==
    \A i \in DOMAIN turns :
       Cardinality({ k \in DOMAIN messages : /\ messages[k].role = turns[i].role
                                             /\ messages[k].content = turns[i].content })
         >= Cardinality({ j \in DOMAIN turns : turns[j] = turns[i] })

\* C25: two process_message requests of one session id lose no message, also
\* when they interleave at the await of the runner: when the second of them
\* returns (no history read, clear or reset having been called), the in-memory
\* session and the persisted one both hold both user messages and both
\* assistant replies, the 50 message cap applied.
C25_NoMessageLost ==
    [][\A p \in Procs :
         (/\ slot[p].pc = "await"
          /\ slot'[p].pc = "idle"
          /\ ~last'.raised
          /\ nadmin = 0
          /\ last.op = "process_message"
          /\ last.returned
          /\ last.session_id = slot[p].session_id) =>
            LET turns == << [role |-> "user", content |-> last.message],
                            [role |-> "assistant", content |-> last.response.explanation],
                            [role |-> "user", content |-> slot[p].message],
                            [role |-> "assistant", content |-> last'.response.explanation] >>
                id == slot[p].session_id
                cached == CacheGet(cache', SessionKey(id), clock')
            IN /\ id \in DOMAIN sessions'
               /\ HoldsTurns(heap'[sessions'[id]].messages, turns)
               /\ cached # None
               /\ HoldsTurns(cached[1].messages, turns)
               /\ Len(cached[1].messages) <= MAX_SESSION_MESSAGES]_vars

\* both requests were suspended at the runner at the same time: the session
\* holds their two user messages next to each other, then the two replies
C25_Witness ==
    /\ \A p \in Procs : slot[p].pc = "idle"
    /\ last.n = 2
    /\ last.op = "process_message"
    /\ last.returned
    /\ nadmin = 0
    /\ "s1" \in DOMAIN sessions
    /\ LET messages == heap[sessions["s1"]].messages
           n == Len(messages)
           cached == CacheGet(cache, SessionKey("s1"), clock)
       IN /\ n = MAX_SESSION_MESSAGES
          /\ messages[n - 3].role = "user"
          /\ messages[n - 2].role = "user"
          /\ messages[n - 1].role = "assistant"
          /\ messages[n].role = "assistant"
          /\ cached # None
          /\ cached[1].messages = messages


\* the components that identify a request for the response cache
SameRequestIdentity(a, b) ==
    /\ strip(lower(a.message)) = strip(lower(b.message))
    /\ a.profile.present = b.profile.present
    /\ a.profile.risk_tolerance = b.profile.risk_tolerance
    /\ a.profile.investment_horizon = b.profile.investment_horizon

\* C26: response cache entries are separated by request identity: two requests
\* have the same key, and the second is served the response cached for the
\* first, only if their lowercased trimmed messages are equal and they agree on
\* profile presence, risk tolerance and investment horizon; a request without a
\* profile is never served a response cached for one with a profile.
C26_CacheKeyInjective ==
    (util.fn = "cache_key" /\ util.phase = "returned") =>
        /\ util.key1 = util.key2 => SameRequestIdentity(util.first, util.second)
        /\ util.out # None => SameRequestIdentity(util.first, util.second)


\* C27: the conversation history process_message hands to the runner holds
\* only the turns that precede the current user message: it is the history the
\* session had when the request arrived, the message being answered is not
\* part of it.
C27_HistoryExcludesCurrentMessage ==
    [][\A p \in Procs :
         (slot[p].pc = "idle" /\ slot'[p].pc = "await") =>
            slot'[p].history =
               get_conversation_history(Mem, cache, slot'[p].session_id, clock).history]_vars


\* the funds of a list that carry the scheme code of a given fund
SameCode(funds, fund) == { i \in DOMAIN funds : funds[i].scheme_code = fund.scheme_code }

\* the search queries of a fetch cycle that were sent before the loop ended
SearchedQueries ==
    Prefix(AddTerms(Prefix(util.analysis.fund_names, 3), Prefix(util.analysis.search_terms, 5)),
           CallCount(util.out.calls, "research_mutual_fund"))

\* C28: in the seed dataset every scheme_code identifies exactly one fund, so
\* the de-duplication by scheme_code of a fetch cycle never discards a fund
\* that differs in name or category from the ones kept, and the merged fund
\* list never holds two entries with one scheme_code.
C28_SchemeCodeIdentifiesOneFund ==
    FetchReturned =>
        LET funds == util.out.data.funds
        IN /\ \A i, j \in DOMAIN FALLBACK_FUNDS :
                 FALLBACK_FUNDS[i].scheme_code = FALLBACK_FUNDS[j].scheme_code =>
                    /\ FALLBACK_FUNDS[i].scheme_name = FALLBACK_FUNDS[j].scheme_name
                    /\ FALLBACK_FUNDS[i].category = FALLBACK_FUNDS[j].category
           /\ \A i \in DOMAIN funds : SameCode(funds, funds[i]) = {i}
           /\ \A k \in DOMAIN SearchedQueries :
                 LET results == Prefix(research_mutual_fund(util.prov, SearchedQueries[k]), 3)
                 IN \A r \in DOMAIN results :
                       \A i \in SameCode(funds, results[r]) :
                          /\ funds[i].scheme_name = results[r].scheme_name
                          /\ funds[i].category = results[r].category


\* a profile of this id exists: in the in-memory map or in the cache
ProfileExists(user_id) ==
    \/ user_id \in DOMAIN profiles.map
    \/ CacheGet(cache, ProfileKey(user_id), clock) # None

\* C29: profile lookups by id never fabricate a profile: GET, PUT and
\* GET .../recommendations on /profile/{user_id} answer 404 for a user_id that
\* was never created or that has been deleted, and such a call leaves the
\* in-memory profile map and the cache unchanged.
C29_UnknownProfileIs404 ==
    [][(/\ profiles'.n # profiles.n
        /\ profiles'.last.op \in {"get_profile", "update_profile", "get_profile_recommendations"}
        /\ ~ProfileExists(profiles'.last.user_id)) =>
           /\ profiles'.last.status = 404
           /\ profiles'.map = profiles.map
           /\ cache' = cache]_vars


\* the tasks whose cycle is executing: started and suspended at a sleep
Executing == { t \in Tasks : prefetch.task[t].pc = "sleep" }

\* C30: at most one prefetch cycle executes at any time: a run_prefetch_cycle
\* call that starts while another cycle is suspended at one of its awaits
\* returns without fetching anything, and _is_running is false whenever no
\* cycle is executing, also after a cycle ended with an exception.
C30_OnePrefetchCycleAtATime ==
    /\ [](/\ Cardinality(Executing) <= 1
          /\ prefetch.is_running = (Executing # {})
          /\ \A t \in Tasks : prefetch.task[t].pc = "skipped" => prefetch.task[t].attempted = <<>>)
    /\ [][\A t \in Tasks :
            (prefetch.task[t].pc = "new" /\ prefetch'.task[t].pc # "new" /\ Executing # {}) =>
                /\ prefetch'.task[t].pc = "skipped"
                /\ prefetch'.task[t].attempted = <<>>
                /\ cache' = cache
                /\ prefetch'.is_running]_vars

\* the second call found the first cycle suspended and returned; the first
\* cycle then ended with CancelledError
C30_Witness ==
    /\ prefetch.task["t1"].pc = "cancelled"
    /\ prefetch.task["t1"].k >= 1
    /\ prefetch.task["t2"].pc = "skipped"
    /\ ~prefetch.is_running
====
